---- MODULE Spec2Model ----
(***************************************************************************)
(* Model of the coordinator workflow of AgenticPlatform                    *)
(* (src/src/core/Agent.js): the LangGraph state, the coordinator /         *)
(* specialized agent / summarizer nodes, the conditional edge after the    *)
(* coordinator and the canonicalization of the coordinator's free text.    *)
(*                                                                         *)
(* Message contents are sequences of one-character strings, so that        *)
(* toLowerCase, trim, includes and the regular-expression replacements of  *)
(* the source are computed character by character.                         *)
(***************************************************************************)
EXTENDS Integers, Sequences, FiniteSets, TLC

(***************************************************************************)
(* Bounds of the model                                                     *)
(***************************************************************************)
\* longest transcript of a run explored under Spec
MaxTurns == 7
\* longest transcript of a run explored under SpecConc
MaxConcTurns == 4

\* turns one event-seeded run may hold before the summary
MaxEventTurns == 5
\* model responses of one Agent.processMessage explored under SpecLoop
MaxThinkSteps == 3
\* model responses of one Agent.processMessage explored under SpecAgent
MaxConcThinkSteps == 2
\* longest capability list explored under SpecRegistry
MaxTools == 5
\* longest capability list explored under SpecAgent
MaxConcTools == 3
\* longest transcript of a run explored under SpecSetup
MaxSetupTurns == 4
\* monitoringLoop() calls of one event source explored under SpecSource
MaxLoops == 2
\* longest feed a fetch brings under SpecFeed
MaxFeedLen == 2
\* longest transcript of a run explored under SpecChat
MaxChatTurns == 3
\* calls of TelegramClient.sendMessage explored under SpecSession
MaxSends == 2
\* longest capability list explored under SpecShutdown
MaxStopTools == 5
\* model responses per node's invocation explored under SpecNode
MaxNodeThinkSteps == 2
\* longest transcript before the summary explored under SpecBrief
MaxBriefTurns == 5

(***************************************************************************)
(* JavaScript string primitives over character sequences                   *)
(***************************************************************************)
WhiteSpace == {" ", "\t", "\n"}

LineTerminators == {"\n"}

UpperToLower ==
  [A |-> "a", B |-> "b", C |-> "c", D |-> "d", E |-> "e", F |-> "f", G |-> "g",
   H |-> "h", I |-> "i", J |-> "j", K |-> "k", L |-> "l", M |-> "m", N |-> "n",
   O |-> "o", P |-> "p", Q |-> "q", R |-> "r", S |-> "s", T |-> "t", U |-> "u",
   V |-> "v", W |-> "w", X |-> "x", Y |-> "y", Z |-> "z"]

LowerChar(c) == IF c \in DOMAIN UpperToLower THEN UpperToLower[c] ELSE c

toLowerCase(s) ==
  IF s = <<>> THEN <<>> ELSE [i \in 1..Len(s) |-> LowerChar(s[i])]

RECURSIVE trimStart(_)
trimStart(s) ==
  IF s # <<>> /\ Head(s) \in WhiteSpace THEN trimStart(Tail(s)) ELSE s

RECURSIVE trimEnd(_)
trimEnd(s) ==
  IF s # <<>> /\ s[Len(s)] \in WhiteSpace
  THEN trimEnd(SubSeq(s, 1, Len(s) - 1))
  ELSE s

trim(s) == trimEnd(trimStart(s))

\* s.substring(i - 1, i - 1 + Len(sub)) === sub, positions counted from 1
MatchesAt(s, sub, i) ==
  /\ i >= 1
  /\ i + Len(sub) - 1 <= Len(s)
  /\ SubSeq(s, i, i + Len(sub) - 1) = sub

\* s.includes(sub)
includes(s, sub) == \E i \in 1..(Len(s) + 1) : MatchesAt(s, sub, i)

\* s.replace(/[chars]/g, '')
removeChars(s, chars) == SelectSeq(s, LAMBDA c : c \notin chars)

\* index of the first character at or after i that is not white space
RECURSIVE skipSpaces(_, _)
skipSpaces(s, i) ==
  IF i <= Len(s) /\ s[i] \in WhiteSpace THEN skipSpaces(s, i + 1) ELSE i

\* '.*$' matches from i to the end of the string: no line terminator remains
RestOfLine(s, i) == \A k \in i..Len(s) : s[k] \notin LineTerminators

Lowest(S) == CHOOSE i \in S : \A j \in S : i <= j

(***************************************************************************)
(* Routing vocabulary                                                      *)
(***************************************************************************)
\* Object.values(AGENT_ROUTES), in declaration order
AGENT_ROUTES ==
  <<"oracle", "analyst", "degen", "coordinator", "summarizer", "done", "complete">>

\* the characters of each route
RouteText ==
  [oracle      |-> <<"o","r","a","c","l","e">>,
   analyst     |-> <<"a","n","a","l","y","s","t">>,
   degen       |-> <<"d","e","g","e","n">>,
   coordinator |-> <<"c","o","o","r","d","i","n","a","t","o","r">>,
   summarizer  |-> <<"s","u","m","m","a","r","i","z","e","r">>,
   done        |-> <<"d","o","n","e">>,
   complete    |-> <<"c","o","m","p","l","e","t","e">>]

RouteIndexes == 1..Len(AGENT_ROUTES)

\* Object.values(AGENT_ROUTES).includes(text)
IsRoute(text) == \E i \in RouteIndexes : RouteText[AGENT_ROUTES[i]] = text

RouteOf(text) == AGENT_ROUTES[CHOOSE i \in RouteIndexes : RouteText[AGENT_ROUTES[i]] = text]

\* .replace(/routing\s+to\s+/i, ''): the leftmost match is removed
RoutingToMatches(s) ==
  { i \in 1..Len(s) :
      /\ MatchesAt(s, <<"r","o","u","t","i","n","g">>, i)
      /\ skipSpaces(s, i + 7) > i + 7
      /\ MatchesAt(s, <<"t","o">>, skipSpaces(s, i + 7))
      /\ skipSpaces(s, skipSpaces(s, i + 7) + 2) > skipSpaces(s, i + 7) + 2 }

removeRoutingTo(s) ==
  IF RoutingToMatches(s) = {} THEN s
  ELSE LET i == Lowest(RoutingToMatches(s))
           j == skipSpaces(s, skipSpaces(s, i + 7) + 2)
       IN  SubSeq(s, 1, i - 1) \o SubSeq(s, j, Len(s))

\* .replace(/\s+agent.*$/i, '')
AgentTailMatches(s) ==
  { i \in 1..Len(s) :
      /\ s[i] \in WhiteSpace
      /\ MatchesAt(s, <<"a","g","e","n","t">>, skipSpaces(s, i))
      /\ RestOfLine(s, skipSpaces(s, i) + 5) }

removeAgentTail(s) ==
  IF AgentTailMatches(s) = {} THEN s
  ELSE SubSeq(s, 1, Lowest(AgentTailMatches(s)) - 1)

\* .replace(/\s*\.\.\..*$/i, '')
EllipsisMatches(s) ==
  { i \in 1..Len(s) :
      /\ MatchesAt(s, <<".",".",".">>, skipSpaces(s, i))
      /\ RestOfLine(s, skipSpaces(s, i) + 3) }

removeEllipsisTail(s) ==
  IF EllipsisMatches(s) = {} THEN s
  ELSE SubSeq(s, 1, Lowest(EllipsisMatches(s)) - 1)

cleanPatterns(cleanContent) ==
  trim(removeEllipsisTail(removeAgentTail(removeRoutingTo(
    removeChars(removeChars(cleanContent, {"(", ")", "[", "]", "{", "}"}),
                {"\"", "'"})))))

\* the routes found as substrings, by position in AGENT_ROUTES
IncludedRoutes(cleanContent) ==
  { i \in RouteIndexes : includes(cleanContent, RouteText[AGENT_ROUTES[i]]) }

firstIncludedRoute(cleanContent) == AGENT_ROUTES[Lowest(IncludedRoutes(cleanContent))]

parseAgentRoutingResponse(content) ==
  LET cleanContent == trim(toLowerCase(content))
      cleaned == cleanPatterns(cleanContent)
  IN  IF IsRoute(cleanContent) THEN RouteOf(cleanContent)
      ELSE IF IncludedRoutes(cleanContent) # {} THEN firstIncludedRoute(cleanContent)
      ELSE IF IsRoute(cleaned) THEN RouteOf(cleaned)
      ELSE "oracle"

isWorkflowComplete(route) == route = "done" \/ route = "complete"

(***************************************************************************)
(* Texts the models and the clients can produce                            *)
(***************************************************************************)
\* coordinator replies: bare tokens, wrapped tokens, prose, unusable text
CoordinatorOutputs ==
  { <<"o","r","a","c","l","e">>,
    <<"a","n","a","l","y","s","t">>,
    <<"d","e","g","e","n">>,
    <<"d","o","n","e">>,
    <<"c","o","m","p","l","e","t","e">>,
    <<"R","o","u","t","i","n","g"," ","t","o"," ","o","r","a","c","l","e"," ","a","g","e","n","t">>,
    <<"d","[","o","]","n","e">>,
    <<"c","o","o","r","d","i","n","a","t","o","r">>,
    <<"I"," ","a","m"," ","F","i","n","i","s","h","e","d">>,
    <<"l","e","t"," ","o","r","a","c","l","e"," ","l","o","o","k"," ","i","t"," ","u","p">>,
    <<"d","e","g","e","n"," ","s","h","o","u","l","d"," ","a","c","t"," ","n","o","w">> }

\* final answers of the specialized agents
AgentOutputs ==
  { <<"s","u","n","n","y"," ","a","n","d"," ","1","8"," ","d","e","g","r","e","e","s">>,
    <<"a","s"," ","a","n"," ","a","g","e","n","t"," ","i"," ","a","g","r","e","e">> }

SummarizerOutputs == { <<"I","t"," ","i","s"," ","s","u","n","n","y",","," ","1","8"," ","d","e","g","r","e","e","s">> }

UserMessages == { <<"W","h","a","t"," ","i","s"," ","t","h","e"," ","w","e","a","t","h","e","r"," ","i","n"," ","S","a","n"," ","F","r","a","n","c","i","s","c","o","?">> }

\* the replies explored when two runs overlap
ConcCoordinatorOutputs ==
  { <<"o","r","a","c","l","e">>,
    <<"d","e","g","e","n">>,
    <<"d","o","n","e">> }

ConcAgentOutputs == { <<"s","u","n","n","y"," ","a","n","d"," ","1","8"," ","d","e","g","r","e","e","s">> }

(***************************************************************************)
(* Workflow state (AgentState) and its reducers                            *)
(***************************************************************************)
NULL == "null"

HumanMessage(text) == [type |-> "human", content |-> text]

AIMessage(text) == [type |-> "ai", content |-> text]

\* variant: the reducer keeps only the update
messagesReducerOverwrite(x, y) == y

messagesReducer(x, y) == x \o y

selectedAgentReducer(x, y) == IF y # NULL THEN y ELSE IF x # NULL THEN x ELSE "oracle"

eventContextReducer(x, y) == IF y # NULL THEN y ELSE IF x # NULL THEN x ELSE NULL

triggerTypeReducer(x, y) == IF y # NULL THEN y ELSE IF x # NULL THEN x ELSE "message"

\* the channels' default values
AgentState ==
  [messages |-> <<>>, selectedAgent |-> "oracle",
   eventContext |-> NULL, triggerType |-> "message"]

\* a node's partial update merged into the state; NULL marks a channel the
\* update does not write
applyUpdate(s, update) ==
  [messages      |-> messagesReducer(s.messages, update.messages),
   selectedAgent |-> IF update.selectedAgent = NULL THEN s.selectedAgent
                     ELSE selectedAgentReducer(s.selectedAgent, update.selectedAgent),
   eventContext  |-> IF update.eventContext = NULL THEN s.eventContext
                     ELSE eventContextReducer(s.eventContext, update.eventContext),
   triggerType   |-> IF update.triggerType = NULL THEN s.triggerType
                     ELSE triggerTypeReducer(s.triggerType, update.triggerType)]

\* variant: the update also writes the trigger type's default
MessagesOnlyDefaultTrigger(msgs) ==
  [messages |-> msgs, selectedAgent |-> NULL, eventContext |-> NULL, triggerType |-> "message"]

\* the update of a node that returns { messages }: the other channels are
\* not written
MessagesOnly(msgs) ==
  [messages |-> msgs, selectedAgent |-> NULL, eventContext |-> NULL, triggerType |-> NULL]

(***************************************************************************)
(* Conditional edge after the coordinator                                  *)
(***************************************************************************)
SpecializedAgents == {"oracle", "analyst", "degen"}

\* the path map of addConditionalEdges
PathMap == {"oracle", "analyst", "degen", "summarizer"}

\* variant: the check forgets "finished"
hasCompletionMarkerNoFinished(content) ==
  \/ includes(content, <<"d","o","n","e">>)
  \/ includes(content, <<"c","o","m","p","l","e","t","e">>)

\* content.includes("done") || content.includes("complete") || content.includes("finished")
hasCompletionMarker(content) ==
  \/ includes(content, <<"d","o","n","e">>)
  \/ includes(content, <<"c","o","m","p","l","e","t","e">>)
  \/ includes(content, <<"f","i","n","i","s","h","e","d">>)

\* messages.slice(-n)
lastN(messages, n) ==
  IF Len(messages) <= n THEN messages
  ELSE SubSeq(messages, Len(messages) - n + 1, Len(messages))

\* recentMessages.map(msg => msg.content.toLowerCase().trim())
messageContents(messages) ==
  LET recentMessages == lastN(messages, 4)
  IN  [i \in 1..Len(recentMessages) |-> trim(toLowerCase(recentMessages[i].content))]

isRoutingMessage(content) ==
  includes(content, <<"r","o","u","t","i","n","g"," ","t","o">>) \/ includes(content, <<"a","g","e","n","t">>)

\* routingMessages.length
routingMessagesLength(contents) ==
  Cardinality({ i \in 1..Len(contents) : isRoutingMessage(contents[i]) })

\* new Set(messageContents.filter(content => content.length > 10))
uniqueContents(contents) ==
  { contents[i] : i \in { k \in 1..Len(contents) : Len(contents[k]) > 10 } }

\* variant: the window is examined only from the 7th turn on
loopDetectedLate(messages) ==
  /\ Len(messages) > 6
  /\ \/ routingMessagesLength(messageContents(messages)) >= 3
     \/ /\ Cardinality(uniqueContents(messageContents(messages))) <= 2
        /\ Len(messageContents(messages)) >= 4

loopDetected(messages) ==
  /\ Len(messages) > 4
  /\ \/ routingMessagesLength(messageContents(messages)) >= 3
     \/ /\ Cardinality(uniqueContents(messageContents(messages))) <= 2
        /\ Len(messageContents(messages)) >= 4

\* variant: the edge ignores the stored routing decision
coordinatorRouteDefault(messages, thisSelectedAgent) ==
  LET lastMessage == messages[Len(messages)]
      content == toLowerCase(lastMessage.content)
  IN  IF hasCompletionMarker(content) THEN "summarizer"
      ELSE IF loopDetected(messages) THEN "summarizer"
      ELSE "oracle"

\* the value returned by the routing function of the conditional edge
coordinatorRoute(messages, thisSelectedAgent) ==
  LET lastMessage == messages[Len(messages)]
      content == toLowerCase(lastMessage.content)
  IN  IF hasCompletionMarker(content) THEN "summarizer"
      ELSE IF loopDetected(messages) THEN "summarizer"
      ELSE IF thisSelectedAgent = "" THEN "oracle" ELSE thisSelectedAgent

(***************************************************************************)
(* State of the model                                                      *)
(***************************************************************************)
Runs == {1, 2}

\* the run explored alone under Spec
SoloRuns == {1}

(***************************************************************************)
(* Agent (src/src/core/Agent.ts): configuration and plugins                *)
(***************************************************************************)
\* config.tools and config.persona of the agent under study
ConstructionTools == <<"tavily_search">>

persona == <<"Y","o","u"," ","a","r","e"," ","t","h","e"," ","o","r","a","c","l","e",".">>

\* the plugins that may be registered: config.name and the names of tools
PluginCatalogue ==
  [erc20       |-> [name |-> "erc20", tools |-> <<"transfer_erc20", "get_erc20_balance">>],
   attestation |-> [name |-> "attestation", tools |-> <<"issue_attestation">>],
   mcp_files   |-> [name |-> "mcp", tools |-> <<"read_file">>],
   mcp_web     |-> [name |-> "mcp", tools |-> <<"fetch_url">>]]

\* the plugins with a config.name of their own
PluginIds == {"erc20", "attestation"}

\* two MCPPlugin instances, both under the default config.name
McpPluginIds == {"mcp_files", "mcp_web"}

PluginNames == {PluginCatalogue[p].name : p \in DOMAIN PluginCatalogue}

\* tool lists passed to addTools directly
DirectToolLists == { <<"evaluate_startup">> }

SystemMessage(text) == [type |-> "system", content |-> text]

\* a model response: text and the tool invocations it requests
AIMessageChunk(text, tool_calls) == [type |-> "ai", content |-> text, tool_calls |-> tool_calls]

ToolMessage(text, name, tool_call_id) ==
  [type |-> "tool", content |-> text, name |-> name, tool_call_id |-> tool_call_id]

VARIABLES
  pc,             \* pc[r]: the node run r executes next, or idle / end / failed
  state,          \* state[r]: the AgentState of run r
  selectedAgent,  \* this.selectedAgent of the platform, shared by all runs
  trace,          \* trace[r]: the nodes run r has executed, in order
  summarizerInput,\* summarizerInput[r]: the turns handed to the summarizer agent
  handler,        \* handler[r]: position of the client's onMessage callback
  sent,           \* sent[r]: the replies passed to client.sendMessage
  rawContent,     \* the text handed to parseAgentRoutingResponse
  route,          \* the route it returned, "none" before the call
  tools,          \* this.tools of the agent
  modelTools,     \* the tools bound to this.model
  workflowTools,  \* the tools of the tool node of this.workflow
  plugins,        \* this.plugins: config name -> plugin, NULL when absent
  initializing,   \* plugins whose registerPlugin awaits initialize()
  addedTools,     \* the tools passed to addTools so far, in call order
  apc,            \* position of the agent's processMessage invocation
  appTools,       \* the tools of the tool node of the compiled workflow
  amessages,      \* the turns of the invocation's state
  modelInput,     \* the turns passed to the model by the last agent node
  advertised,     \* the tools bound to the model the last agent node invoked
  invoked,        \* the tool invocations the tools node performed, with their outcome
  returned,       \* the turn processMessage returned, as a one-element list
  agents,         \* this.agents of the platform: the registered agent names
  workflowDefined,\* defineCoordinatorWorkflow: "no", "yes" or "refused"
  eventArgs,      \* eventArgs[r]: the arguments of the processEvent call of run r
  isRunning,      \* this.isRunning of the event source
  loops,          \* the monitoringLoop() calls made so far, each with its position
  lastItems,      \* this.lastItems of the RSS source: the item keys seen
  delivered,      \* the items passed to the event callback, in call order
  skipped,        \* the items shouldProcessEvent returned false for
  filters,        \* config.filters of the event source
  responseHandlers,\* this.responseHandlers of the Telegram client: id -> chat served
  metadata,       \* metadata[r]: the metadata of the message that seeded run r
  inflight,       \* inflight[c]: the response handler call awaits for caller c
  outbox,         \* the texts sent to Telegram chats, in order
  sendCalls,      \* the calls of TelegramClient.sendMessage, in order
  registered,     \* the plugins registerPlugin has stored so far
  overlapped,     \* the plugins whose initialize() was awaited while another's was
  pluginOrder,    \* the keys of this.plugins in insertion order
  shutdown,       \* position of the platform's stop()
  clientStatus,   \* clientStatus[c]: running, stopped, or its stop() failed
  cleaned         \* the plugins whose cleanup() has been called

vars ==
  <<pc, state, selectedAgent, trace, summarizerInput, handler, sent, rawContent, route,
    tools, modelTools, workflowTools, plugins, initializing, addedTools,
    apc, appTools, amessages, modelInput, advertised, invoked, returned,
    agents, workflowDefined, eventArgs,
    isRunning, loops, lastItems, delivered, skipped, filters,
    responseHandlers, metadata, inflight, outbox, sendCalls,
    registered, overlapped, pluginOrder, shutdown, clientStatus, cleaned>>

runVars == <<pc, state, selectedAgent, trace, summarizerInput>>

\* the Telegram client: its handler map and what went through it
telegramVars == <<responseHandlers, metadata, inflight, outbox, sendCalls>>

clientVars == <<handler, sent, telegramVars>>

parseVars == <<rawContent, route>>

\* the agent's capabilities and its binding
registryVars ==
  <<tools, modelTools, workflowTools, plugins, initializing, addedTools,
    registered, overlapped, pluginOrder>>

\* one invocation of the agent's processMessage
invocationVars == <<apc, appTools, amessages, modelInput, advertised, invoked, returned>>

agentVars == <<registryVars, invocationVars>>

\* the platform's agent registry and whether its workflow is defined
setupVars == <<agents, workflowDefined>>

\* the variables outside the platform's workflow and its clients
\* the arguments processEvent was called with
callVars == <<eventArgs>>

\* one event source: its flag, its monitoring loops and what they delivered
sourceVars == <<isRunning, loops, lastItems, delivered, skipped, filters>>

\* the platform's stop() and what it has torn down
shutdownVars == <<shutdown, clientStatus, cleaned>>

\* the components around the workflow
peripheralVars == <<sourceVars, shutdownVars>>

\* the variables no step of a run touches
backgroundVars == <<parseVars, agentVars, setupVars, peripheralVars>>

outsideVars == <<backgroundVars, callVars>>

\* the variables outside the agent under study
nonAgentVars == <<runVars, clientVars, parseVars, setupVars, callVars, peripheralVars>>

\* the platform, its clients and its agents
platformVars == <<runVars, clientVars, parseVars, agentVars, setupVars, callVars>>

\* the variables outside the event source
nonSourceVars == <<platformVars, shutdownVars>>

\* the variables outside parseAgentRoutingResponse under study
nonParseVars == <<runVars, clientVars, agentVars, setupVars, callVars, peripheralVars>>

\* processEvent has not been called for the run
NoEventArgs == [event |-> NULL, preferredAgent |-> NULL]

\* the callers of TelegramClient.sendMessage: the callback of a run, or 0
\* for a direct call
Callers == Runs \cup {0}

\* a message without metadata
NoMetadata == [absent |-> TRUE]

\* no response handler is awaited
NoCall == [absent |-> TRUE]

\* no run, no client callback in progress
InitPlatform ==
  /\ pc = [r \in Runs |-> "idle"]
  /\ state = [r \in Runs |-> AgentState]
  /\ selectedAgent = "oracle"
  /\ trace = [r \in Runs |-> <<>>]
  /\ summarizerInput = [r \in Runs |-> <<>>]
  /\ handler = [r \in Runs |-> "idle"]
  /\ sent = [r \in Runs |-> <<>>]
  /\ eventArgs = [r \in Runs |-> NoEventArgs]
  /\ responseHandlers = <<>>
  /\ metadata = [r \in Runs |-> NoMetadata]
  /\ inflight = [c \in Callers |-> NoCall]
  /\ outbox = <<>>
  /\ sendCalls = <<>>

\* parseAgentRoutingResponse not under test
InitNoParse ==
  /\ rawContent = <<>>
  /\ route = "none"

\* the agent as constructed, no invocation in progress
InitAgent ==
  /\ tools = ConstructionTools
  /\ modelTools = ConstructionTools
  /\ workflowTools = ConstructionTools
  /\ plugins = [n \in PluginNames |-> NULL]
  /\ initializing = {}
  /\ addedTools = <<>>
  /\ registered = {}
  /\ overlapped = {}
  /\ pluginOrder = <<>>
  /\ apc = "idle"
  /\ appTools = <<>>
  /\ amessages = <<>>
  /\ modelInput = <<>>
  /\ advertised = <<>>
  /\ invoked = <<>>
  /\ returned = <<>>

\* the five agents of the coordinator workflow are registered and the
\* workflow is defined
InitSetupDone ==
  /\ agents = {"coordinator", "oracle", "analyst", "degen", "summarizer"}
  /\ workflowDefined = "yes"

\* an event source as constructed, without filters: not running, nothing seen
InitSource ==
  /\ isRunning = FALSE
  /\ loops = <<>>
  /\ lastItems = {}
  /\ delivered = <<>>
  /\ skipped = {}
  /\ filters = <<>>

\* the clients registered with the platform, in registration order
Clients == <<"cli", "telegram">>

\* a started platform on which stop() has not been called
InitRunning ==
  /\ shutdown = [phase |-> "idle", index |-> 0]
  /\ clientStatus = [c \in {Clients[i] : i \in DOMAIN Clients} |-> "running"]
  /\ cleaned = {}

InitPeripheral == InitSource /\ InitRunning

Init ==
  /\ InitPlatform
  /\ InitNoParse
  /\ InitAgent
  /\ InitSetupDone
  /\ InitPeripheral

(***************************************************************************)
(* Operations                                                              *)
(***************************************************************************)
\* processMessage: compile the graph and invoke it on the seeded state; the
\* edge from __start__ leads to the coordinator
processMessage(r, message) ==
  /\ pc[r] = "idle"
  /\ state' = [state EXCEPT ![r] =
       applyUpdate(AgentState,
         [messages |-> <<message>>, selectedAgent |-> "oracle",
          eventContext |-> NULL, triggerType |-> "message"])]
  /\ pc' = [pc EXCEPT ![r] = "coordinator"]
  /\ UNCHANGED <<selectedAgent, trace, summarizerInput, outsideVars>>

\* variant: the lookup of an agent never comes back empty
agentFoundAlways(name) == TRUE

\* this.getAgent(name) is not undefined
agentFound(name) == name \in agents

\* a node whose agent is not registered throws
agentNotFound(r) ==
  /\ pc[r] \in {"coordinator", "oracle", "analyst", "degen", "summarizer"}
  /\ ~agentFound(pc[r])
  /\ pc' = [pc EXCEPT ![r] = "failed"]
  /\ UNCHANGED <<state, selectedAgent, trace, summarizerInput, clientVars, outsideVars>>

\* coordinator node, resumed when the coordinator agent's reply arrives
coordinatorNode(r, content) ==
  /\ pc[r] = "coordinator"
  /\ agentFound("coordinator")
  /\ LET response == AIMessage(content)
         selected == parseAgentRoutingResponse(content)
     IN  /\ selectedAgent' = selected
         /\ state' = [state EXCEPT ![r] =
              applyUpdate(state[r],
                [messages |-> <<response>>, selectedAgent |-> selected,
                 eventContext |-> NULL, triggerType |-> NULL])]
  /\ pc' = [pc EXCEPT ![r] = "coordinatorEdge"]
  /\ trace' = [trace EXCEPT ![r] = Append(@, "coordinator")]
  /\ UNCHANGED <<summarizerInput, clientVars, outsideVars>>

\* conditional edge after the coordinator: a returned key outside the path
\* map is an unknown destination and fails the run
coordinatorEdge(r) ==
  /\ pc[r] = "coordinatorEdge"
  /\ LET next == coordinatorRoute(state[r].messages, selectedAgent)
     IN  pc' = [pc EXCEPT ![r] = IF next \in PathMap THEN next ELSE "failed"]
  /\ UNCHANGED <<state, selectedAgent, trace, summarizerInput, clientVars, outsideVars>>

\* variant: the specialized agents lead to the summarizer
agentEdgeToSummarizer(agent) == "summarizer"

\* the node after a specialized agent: the fixed edge back to the coordinator
agentEdge(agent) == "coordinator"

\* oracle / analyst / degen node, resumed when the agent's reply arrives
agentNode(r, agent, content) ==
  /\ pc[r] = agent
  /\ agent \in SpecializedAgents
  /\ agentFound(agent)
  /\ state' = [state EXCEPT ![r] = applyUpdate(state[r], MessagesOnly(<<AIMessage(content)>>))]
  /\ pc' = [pc EXCEPT ![r] = agentEdge(agent)]
  /\ trace' = [trace EXCEPT ![r] = Append(@, agent)]
  /\ UNCHANGED <<selectedAgent, summarizerInput, clientVars, outsideVars>>

\* variant: the filter keeps short turns
substantiveMessagesAnyLength(allMessages) ==
  LET keep(msg) ==
        /\ ~includes(toLowerCase(msg.content), <<"r","o","u","t","i","n","g"," ","t","o">>)
        /\ ~includes(toLowerCase(msg.content), <<"w","o","r","k","f","l","o","w"," ","c","o","m","p","l","e","t","e">>)
        /\ ~includes(toLowerCase(msg.content), <<"f","a","l","l","b","a","c","k">>)
  IN  SelectSeq(allMessages, keep)

\* allMessages.filter(...): routing turns and short turns are dropped
substantiveMessages(allMessages) ==
  LET keep(msg) ==
        /\ ~includes(toLowerCase(msg.content), <<"r","o","u","t","i","n","g"," ","t","o">>)
        /\ ~includes(toLowerCase(msg.content), <<"w","o","r","k","f","l","o","w"," ","c","o","m","p","l","e","t","e">>)
        /\ ~includes(toLowerCase(msg.content), <<"f","a","l","l","b","a","c","k">>)
        /\ Len(trim(msg.content)) > 10
  IN  SelectSeq(allMessages, keep)

\* summarizer node, followed by the fixed edge to __end__
summarizerNode(r, content) ==
  /\ pc[r] = "summarizer"
  /\ agentFound("summarizer")
  /\ summarizerInput' = [summarizerInput EXCEPT ![r] = substantiveMessages(state[r].messages)]
  /\ state' = [state EXCEPT ![r] = applyUpdate(state[r], MessagesOnly(<<AIMessage(content)>>))]
  /\ pc' = [pc EXCEPT ![r] = "end"]
  /\ trace' = [trace EXCEPT ![r] = Append(@, "summarizer")]
  /\ UNCHANGED <<selectedAgent, clientVars, outsideVars>>

\* callback registered by registerClient: a message arrives and
\* processMessage is awaited
onMessage(r, message) ==
  /\ handler[r] = "idle"
  /\ processMessage(r, message)
  /\ handler' = [handler EXCEPT ![r] = "processing"]
  /\ UNCHANGED <<sent, telegramVars>>

\* variant: the callback sends the first turn of the result
lastMessageOfFirst(messages) == messages[1]

\* result.messages[result.messages.length - 1]
lastMessageOf(messages) == messages[Len(messages)]

\* the run has reached __end__: processMessage returns the last turn and the
\* callback passes it to client.sendMessage
sendMessage(r) ==
  /\ handler[r] = "processing"
  /\ pc[r] = "end"
  /\ sent' = [sent EXCEPT ![r] = Append(@, lastMessageOf(state[r].messages))]
  /\ handler' = [handler EXCEPT ![r] = "done"]
  /\ UNCHANGED <<telegramVars, runVars, outsideVars>>

\* the run has failed: processMessage rejects and so does the callback
callbackRejects(r) ==
  /\ handler[r] = "processing"
  /\ pc[r] = "failed"
  /\ handler' = [handler EXCEPT ![r] = "rejected"]
  /\ UNCHANGED <<sent, telegramVars, runVars, outsideVars>>

\* the model has room for one more turn of run r
Room(r, cap) == Len(state[r].messages) < cap

(***************************************************************************)
(* Spec: one run on the platform, all reply texts                          *)
(***************************************************************************)
StartRun(r) == \E m \in UserMessages : onMessage(r, HumanMessage(m))

CoordinatorReplies(r) ==
  /\ Room(r, MaxTurns)
  /\ \E c \in CoordinatorOutputs : coordinatorNode(r, c)

CoordinatorRoutes(r) == coordinatorEdge(r)

AgentReplies(r) ==
  /\ Room(r, MaxTurns)
  /\ \E a \in SpecializedAgents, c \in AgentOutputs : agentNode(r, a, c)

SummarizerReplies(r) ==
  /\ Room(r, MaxTurns + 1)
  /\ \E c \in SummarizerOutputs : summarizerNode(r, c)

ReplySent(r) == sendMessage(r)

CallbackFails(r) == callbackRejects(r)

Next ==
  \E r \in SoloRuns :
    \/ StartRun(r)
    \/ CoordinatorReplies(r)
    \/ CoordinatorRoutes(r)
    \/ AgentReplies(r)
    \/ SummarizerReplies(r)
    \/ ReplySent(r)
    \/ CallbackFails(r)

Spec == Init /\ [][Next]_vars

(***************************************************************************)
(* SpecConc: two runs of the same platform interleaved at their awaits     *)
(***************************************************************************)
ConcStartRun(r) == \E m \in UserMessages : onMessage(r, HumanMessage(m))

ConcCoordinatorReplies(r) ==
  /\ Room(r, MaxConcTurns)
  /\ \E c \in ConcCoordinatorOutputs : coordinatorNode(r, c)

ConcCoordinatorRoutes(r) == coordinatorEdge(r)

ConcAgentReplies(r) ==
  /\ Room(r, MaxConcTurns)
  /\ \E a \in SpecializedAgents, c \in ConcAgentOutputs : agentNode(r, a, c)

ConcSummarizerReplies(r) ==
  /\ Room(r, MaxConcTurns + 1)
  /\ \E c \in SummarizerOutputs : summarizerNode(r, c)

ConcReplySent(r) == sendMessage(r)

ConcCallbackFails(r) == callbackRejects(r)

NextConc ==
  \E r \in Runs :
    \/ ConcStartRun(r)
    \/ ConcCoordinatorReplies(r)
    \/ ConcCoordinatorRoutes(r)
    \/ ConcAgentReplies(r)
    \/ ConcSummarizerReplies(r)
    \/ ConcReplySent(r)
    \/ ConcCallbackFails(r)

SpecConc == Init /\ [][NextConc]_vars

(***************************************************************************)
(* Event-seeded runs (processEvent)                                        *)
(***************************************************************************)
\* Characters outside the basic plane are kept as one named element each.
\* Optional fields that are absent are empty: the templates test them for
\* truthiness, which an empty string and a zero block number also fail.
Events ==
  [web1   |-> [type |-> "web_event", source |-> <<"r","s","s">>, title |-> <<"E","T","H"," ","u","p">>,
               content |-> <<"p","r","i","c","e"," ","r","o","s","e">>, url |-> <<>>],
   web2   |-> [type |-> "web_event", source |-> <<"a","p","i">>, title |-> <<"M","e","r","g","e">>,
               content |-> <<"d","o","n","e"," ","t","o","d","a","y">>, url |-> <<"h","t","t","p",":","/","/","x",".","i","o">>],
   chain1 |-> [type |-> "onchain_event", network |-> <<"b","a","s","e">>, eventType |-> <<"T","r","a","n","s","f","e","r">>,
               contractAddress |-> <<"0","x","c","0">>, transactionHash |-> <<>>, blockNumber |-> 12,
               data |-> [kind |-> "string", value |-> <<"5"," ","e","t","h">>]],
   chain2 |-> [type |-> "onchain_event", network |-> <<"b","a","s","e">>, eventType |-> <<"M","i","n","t">>,
               contractAddress |-> <<>>, transactionHash |-> <<"0","x","a","b">>, blockNumber |-> 0,
               data |-> [kind |-> "null"]],
   odd1   |-> [type |-> "rss_event"]]

EventIds == DOMAIN Events

\* the preferredAgent arguments explored; NULL is an omitted argument
PreferredAgents == {NULL, "", "analyst", "researcher"}

Digits == <<"0", "1", "2", "3", "4", "5", "6", "7", "8", "9">>

\* String(n) of a non-negative integer
RECURSIVE numberToString(_)
numberToString(n) ==
  IF n < 10 THEN <<Digits[n + 1]>>
  ELSE numberToString(n \div 10) \o <<Digits[(n % 10) + 1]>>

\* JSON.stringify(data, null, 2) of null and of strings without escapes
jsonStringify(data) ==
  IF data.kind = "null" THEN <<"n","u","l","l">>
  ELSE <<"\"">> \o data.value \o <<"\"">>

\* the template literal of the web_event case
renderWebEvent(event) ==
  <<"U+1F310">> \o <<" ","W","E","B"," ","E","V","E","N","T"," ","D","E","T","E","C","T","E","D"," ">> \o <<"U+1F310">>
    \o <<"\n","\n","S","o","u","r","c","e",":"," ">> \o event.source
    \o <<"\n","T","i","t","l","e",":"," ">> \o event.title \o <<"\n">>
    \o (IF event.url # <<>> THEN <<"U","R","L",":"," ">> \o event.url \o <<"\n">> ELSE <<>>)
    \o <<"\n","C","o","n","t","e","n","t",":"," ">> \o event.content
    \o <<"\n","\n","P","l","e","a","s","e"," ","a","n","a","l","y","z","e"," ","t","h","i","s"," ","w","e","b"," ","e","v","e","n","t"," ","a","n","d"," ","p","r","o","v","i","d","e"," ","i","n","s","i","g","h","t","s",".">>

\* the template literal of the onchain_event case
renderOnchainEvent(event) ==
  <<"U+26D3", "U+FE0F">> \o <<" ","O","N","C","H","A","I","N"," ","E","V","E","N","T"," ","D","E","T","E","C","T","E","D"," ">> \o <<"U+26D3", "U+FE0F">>
    \o <<"\n","\n","N","e","t","w","o","r","k",":"," ">> \o event.network
    \o <<"\n","E","v","e","n","t"," ","T","y","p","e",":"," ">> \o event.eventType \o <<"\n">>
    \o (IF event.contractAddress # <<>>
        THEN <<"C","o","n","t","r","a","c","t",":"," ">> \o event.contractAddress \o <<"\n">> ELSE <<>>)
    \o (IF event.transactionHash # <<>>
        THEN <<"T","x"," ","H","a","s","h",":"," ">> \o event.transactionHash \o <<"\n">> ELSE <<>>)
    \o (IF event.blockNumber # 0
        THEN <<"B","l","o","c","k",":"," ">> \o numberToString(event.blockNumber) \o <<"\n">> ELSE <<>>)
    \o <<"\n","D","a","t","a",":"," ">> \o jsonStringify(event.data)
    \o <<"\n","\n","P","l","e","a","s","e"," ","a","n","a","l","y","z","e"," ","t","h","i","s"," ","o","n","c","h","a","i","n"," ","e","v","e","n","t"," ","a","n","d"," ","p","r","o","v","i","d","e"," ","i","n","s","i","g","h","t","s",".">>

determineAgentForWebEvent(event) == "oracle"

\* variant: on-chain events go to the oracle as well
determineAgentForOnchainEventOracle(event) == "oracle"

determineAgentForOnchainEvent(event) == "degen"

\* preferredAgent || fallback
orElse(preferredAgent, fallback) ==
  IF preferredAgent = NULL \/ preferredAgent = "" THEN fallback ELSE preferredAgent

\* processEvent on a web or on-chain event: the state is seeded with the
\* rendered turn, the chosen agent, the event and the trigger type
processEvent(r, e, preferredAgent) ==
  /\ pc[r] = "idle"
  /\ Events[e].type \in {"web_event", "onchain_event"}
  /\ LET event == Events[e]
         message == IF event.type = "web_event"
                    THEN HumanMessage(renderWebEvent(event))
                    ELSE HumanMessage(renderOnchainEvent(event))
         selected == IF event.type = "web_event"
                     THEN orElse(preferredAgent, determineAgentForWebEvent(event))
                     ELSE orElse(preferredAgent, determineAgentForOnchainEvent(event))
     IN  state' = [state EXCEPT ![r] =
           applyUpdate(AgentState,
             [messages |-> <<message>>, selectedAgent |-> selected,
              eventContext |-> e, triggerType |-> "event"])]
  /\ pc' = [pc EXCEPT ![r] = "coordinator"]
  /\ eventArgs' = [eventArgs EXCEPT ![r] = [event |-> e, preferredAgent |-> preferredAgent]]
  /\ UNCHANGED <<selectedAgent, trace, summarizerInput, clientVars, backgroundVars>>

\* processEvent on any other event type: Unknown event type is thrown
\* before the graph is invoked
processEventUnknown(r, e, preferredAgent) ==
  /\ pc[r] = "idle"
  /\ Events[e].type \notin {"web_event", "onchain_event"}
  /\ pc' = [pc EXCEPT ![r] = "thrown"]
  /\ eventArgs' = [eventArgs EXCEPT ![r] = [event |-> e, preferredAgent |-> preferredAgent]]
  /\ UNCHANGED <<state, selectedAgent, trace, summarizerInput, clientVars, backgroundVars>>

(***************************************************************************)
(* SpecEvent: one run seeded by an event                                   *)
(***************************************************************************)
EventStartsRun(r) ==
  \E e \in EventIds, preferredAgent \in PreferredAgents : processEvent(r, e, preferredAgent)

EventRefused(r) ==
  \E e \in EventIds, preferredAgent \in PreferredAgents : processEventUnknown(r, e, preferredAgent)

EventCoordinatorReplies(r) ==
  /\ Room(r, MaxEventTurns)
  /\ \E c \in CoordinatorOutputs : coordinatorNode(r, c)

EventCoordinatorRoutes(r) == coordinatorEdge(r)

EventAgentReplies(r) ==
  /\ Room(r, MaxEventTurns)
  /\ \E a \in SpecializedAgents, c \in AgentOutputs : agentNode(r, a, c)

EventSummarizerReplies(r) ==
  /\ Room(r, MaxEventTurns + 1)
  /\ \E c \in SummarizerOutputs : summarizerNode(r, c)

NextEvent ==
  \E r \in SoloRuns :
    \/ EventStartsRun(r)
    \/ EventRefused(r)
    \/ EventCoordinatorReplies(r)
    \/ EventCoordinatorRoutes(r)
    \/ EventAgentReplies(r)
    \/ EventSummarizerReplies(r)

SpecEvent == Init /\ [][NextEvent]_vars

(***************************************************************************)
(* Agent: capability registration                                          *)
(***************************************************************************)
\* variant: the new tools replace the list
appendToolsReplace(oldTools, newTools) == newTools

\* [...this.tools, ...wrappedTools]
appendTools(oldTools, newTools) == oldTools \o newTools

\* the part of addTools that changes the agent: the list is extended, the
\* model is bound to the whole list and the workflow is rebuilt around a
\* tool node over the whole list
addToolsEffect(newTools) ==
  /\ tools' = appendTools(tools, newTools)
  /\ modelTools' = appendTools(tools, newTools)
  /\ workflowTools' = appendTools(tools, newTools)
  /\ addedTools' = addedTools \o newTools

\* agent.addTools(newTools), called directly
addTools(newTools) ==
  /\ addToolsEffect(newTools)
  /\ UNCHANGED <<plugins, initializing, registered, overlapped, pluginOrder,
                 invocationVars, nonAgentVars>>

\* registerPlugin up to its await of plugin.initialize()
registerPluginBegins(p) ==
  /\ p \notin initializing
  /\ initializing' = initializing \cup {p}
  /\ overlapped' = IF initializing = {} THEN overlapped ELSE overlapped \cup initializing \cup {p}
  /\ UNCHANGED <<tools, modelTools, workflowTools, addedTools, plugins, registered, pluginOrder,
                 invocationVars, nonAgentVars>>

\* registerPlugin after plugin.initialize() has resolved
registerPluginCompletes(p) ==
  /\ p \in initializing
  /\ initializing' = initializing \ {p}
  /\ plugins' = [plugins EXCEPT ![PluginCatalogue[p].name] = p]
  /\ registered' = registered \cup {p}
  /\ UNCHANGED overlapped
  /\ pluginOrder' =
       IF plugins[PluginCatalogue[p].name] = NULL
       THEN Append(pluginOrder, PluginCatalogue[p].name)
       ELSE pluginOrder
  /\ addToolsEffect(PluginCatalogue[p].tools)
  /\ UNCHANGED <<invocationVars, nonAgentVars>>

(***************************************************************************)
(* Agent: one invocation of processMessage (the tool-use loop)             *)
(***************************************************************************)
AgentQuestion == <<"T","r","a","n","s","f","e","r"," ","5"," ","t","o","k","e","n","s"," ","t","o"," ","a","l","i","c","e",".","e","t","h">>

\* the turn sequences processMessage is invoked with
AgentInputs ==
  { <<HumanMessage(AgentQuestion)>>,
    <<SystemMessage(<<"A","n","s","w","e","r"," ","i","n"," ","F","r","e","n","c","h",".">>), HumanMessage(AgentQuestion)>> }

FinalAnswers == { <<"T","h","e"," ","t","r","a","n","s","f","e","r"," ","i","s"," ","s","e","n","t",".">> }

ToolResults == { <<"0","x","a","b","c">> }

ToolErrors == { <<"i","n","s","u","f","f","i","c","i","e","n","t"," ","f","u","n","d","s">> }

\* the elements of a sequence
Range(s) == {s[i] : i \in 1..Len(s)}

ToolCall(name, id) == [name |-> name, id |-> id]

\* the tool_calls of a turn, none for turns that are no model response
toolCallsOf(msg) == IF "tool_calls" \in DOMAIN msg THEN msg.tool_calls ELSE <<>>

\* model responses so far in this invocation
thinkSteps == Cardinality({i \in 1..Len(amessages) : amessages[i].type = "ai"})

\* what the model may answer when the given tools are bound to it: a final
\* answer, a request for the tool bound last, or a request for the tools
\* bound first and last
ModelResponses(boundTools, k) ==
  {AIMessageChunk(a, <<>>) : a \in FinalAnswers}
    \cup (IF boundTools # <<>>
          THEN {AIMessageChunk(<<>>, <<ToolCall(boundTools[Len(boundTools)], 10 * k + 1)>>),
                AIMessageChunk(<<>>, <<ToolCall(boundTools[1], 10 * k + 1),
                                       ToolCall(boundTools[Len(boundTools)], 10 * k + 2)>>)}
          ELSE {})

\* Agent.processMessage(messages): the current workflow is compiled and
\* invoked on the turns
agentProcessMessage(messages) ==
  /\ apc = "idle"
  /\ apc' = "agent"
  /\ appTools' = workflowTools
  /\ amessages' = messages
  /\ UNCHANGED <<modelInput, advertised, invoked, returned,
                 registryVars, nonAgentVars>>

\* the turns callModel passes to the model
callModelInput(messages) ==
  IF \E i \in 1..Len(messages) : messages[i].type = "system"
  THEN messages
  ELSE <<SystemMessage(persona)>> \o messages

\* the agent node: this.model, as bound at the time of the call, is invoked
\* and its response is appended
callModel(response) ==
  /\ apc = "agent"
  /\ response \in ModelResponses(modelTools, thinkSteps + 1)
  /\ modelInput' = callModelInput(amessages)
  /\ advertised' = modelTools
  /\ amessages' = amessages \o <<response>>
  /\ apc' = "shouldContinue"
  /\ UNCHANGED <<appTools, invoked, returned, registryVars, nonAgentVars>>

\* variant: the invocation ends after every model response
shouldContinueAlwaysEnds ==
  /\ apc = "shouldContinue"
  /\ apc' = "end"
  /\ UNCHANGED <<appTools, amessages, modelInput, advertised, invoked, returned,
                 registryVars, nonAgentVars>>

\* the conditional edge after the agent node
shouldContinue ==
  /\ apc = "shouldContinue"
  /\ apc' = IF Len(toolCallsOf(amessages[Len(amessages)])) > 0 THEN "tools" ELSE "end"
  /\ UNCHANGED <<appTools, amessages, modelInput, advertised, invoked, returned,
                 registryVars, nonAgentVars>>

\* the tool-result turn of one requested invocation: the tool's output, or
\* the error text when the tool is unknown to the tool node or throws
toolResultTurn(call, outcome) ==
  IF outcome.kind = "returns"
  THEN ToolMessage(outcome.text, call.name, call.id)
  ELSE ToolMessage(<<"E","r","r","o","r",":"," ">> \o outcome.text \o <<"\n"," ","P","l","e","a","s","e"," ","f","i","x"," ","y","o","u","r"," ","m","i","s","t","a","k","e","s",".">>,
                   call.name, call.id)

\* the tool returns its output
Returns == {[kind |-> "returns", text |-> t] : t \in ToolResults}

\* the tool's invoke throws
Throws == {[kind |-> "throws", text |-> t] : t \in ToolErrors}

\* the tool node knows no tool of the requested name
Missing == {[kind |-> "missing", text |-> <<"T","o","o","l"," ","n","o","t"," ","f","o","u","n","d",".">>]}

\* the outcomes one requested invocation can have on the given tool node
ToolOutcomes(call, nodeTools) ==
  IF call.name \in Range(nodeTools) THEN Returns \cup Throws ELSE Missing

\* variant: after the tools node the invocation ends
toolsEdgeToEnd == "end"

\* addEdge("tools", "agent")
toolsEdge == "agent"

\* the tools node of the compiled workflow: every requested invocation is
\* looked up among the node's tools and invoked once, and its result turn is
\* appended
toolNode(outcomes) ==
  /\ apc = "tools"
  /\ LET calls == toolCallsOf(amessages[Len(amessages)])
     IN  /\ DOMAIN outcomes = 1..Len(calls)
         /\ \A i \in 1..Len(calls) : outcomes[i] \in ToolOutcomes(calls[i], appTools)
         /\ amessages' = amessages \o [i \in 1..Len(calls) |-> toolResultTurn(calls[i], outcomes[i])]
         /\ invoked' = invoked \o SelectSeq(
                         [i \in 1..Len(calls) |->
                            [id |-> calls[i].id, name |-> calls[i].name, kind |-> outcomes[i].kind]],
                         LAMBDA invocation : invocation.kind # "missing")
  /\ apc' = toolsEdge
  /\ UNCHANGED <<appTools, modelInput, advertised, returned,
                 registryVars, nonAgentVars>>

\* variant: processMessage returns the turn before the last
agentReturnsBeforeLast ==
  /\ apc = "end"
  /\ apc' = "returned"
  /\ returned' = <<amessages[Len(amessages) - 1]>>
  /\ UNCHANGED <<appTools, amessages, modelInput, advertised, invoked,
                 registryVars, nonAgentVars>>

\* processMessage returns the last turn of the final state
agentReturns ==
  /\ apc = "end"
  /\ apc' = "returned"
  /\ returned' = <<amessages[Len(amessages)]>>
  /\ UNCHANGED <<appTools, amessages, modelInput, advertised, invoked,
                 registryVars, nonAgentVars>>

(***************************************************************************)
(* SpecLoop: one invocation of the agent as constructed                    *)
(***************************************************************************)
\* all assignments of outcomes to one or two requested invocations
OutcomeChoices == UNION {[1..n -> Returns \cup Throws \cup Missing] : n \in 1..2}

\* the model has room for the tools
ToolRoom(newTools, cap) == Len(tools) + Len(newTools) <= cap

InvocationBegins == \E messages \in AgentInputs : agentProcessMessage(messages)

Think ==
  /\ thinkSteps < MaxThinkSteps
  /\ \E response \in ModelResponses(modelTools, thinkSteps + 1) : callModel(response)

Route == shouldContinue

Act == \E outcomes \in OutcomeChoices : toolNode(outcomes)

InvocationReturns == agentReturns

NextLoop ==
  \/ InvocationBegins
  \/ Think
  \/ Route
  \/ Act
  \/ InvocationReturns

\* the engine's own steps are taken once they can be: the edge after the
\* agent node is evaluated and the final state is returned
SpecLoop ==
  /\ Init
  /\ [][NextLoop]_vars
  /\ WF_vars(Route)
  /\ WF_vars(InvocationReturns)

(***************************************************************************)
(* SpecRegistry: capabilities added to the agent, no invocation            *)
(***************************************************************************)
ToolsAdded ==
  \E newTools \in DirectToolLists :
    ToolRoom(newTools, MaxTools) /\ addTools(newTools)

PluginInitializes ==
  \E p \in PluginIds :
    ToolRoom(PluginCatalogue[p].tools, MaxTools) /\ registerPluginBegins(p)

PluginRegistered ==
  \E p \in PluginIds :
    ToolRoom(PluginCatalogue[p].tools, MaxTools) /\ registerPluginCompletes(p)

NextRegistry ==
  \/ ToolsAdded
  \/ PluginInitializes
  \/ PluginRegistered

SpecRegistry == Init /\ [][NextRegistry]_vars

(***************************************************************************)
(* SpecAgent: capabilities added while an invocation is in flight          *)
(***************************************************************************)
ConcInvocationBegins == \E messages \in AgentInputs : agentProcessMessage(messages)

ConcThink ==
  /\ thinkSteps < MaxConcThinkSteps
  /\ \E response \in ModelResponses(modelTools, thinkSteps + 1) : callModel(response)

ConcRoute == shouldContinue

ConcAct == \E outcomes \in OutcomeChoices : toolNode(outcomes)

ConcInvocationReturns == agentReturns

ConcToolsAdded ==
  \E newTools \in DirectToolLists :
    ToolRoom(newTools, MaxConcTools) /\ addTools(newTools)

ConcPluginInitializes ==
  \E p \in PluginIds :
    ToolRoom(PluginCatalogue[p].tools, MaxConcTools) /\ registerPluginBegins(p)

ConcPluginRegistered ==
  \E p \in PluginIds :
    ToolRoom(PluginCatalogue[p].tools, MaxConcTools) /\ registerPluginCompletes(p)

NextAgent ==
  \/ ConcInvocationBegins
  \/ ConcThink
  \/ ConcRoute
  \/ ConcAct
  \/ ConcInvocationReturns
  \/ ConcToolsAdded
  \/ ConcPluginInitializes
  \/ ConcPluginRegistered

SpecAgent == Init /\ [][NextAgent]_vars

(***************************************************************************)
(* SpecSetup: agents registered and the workflow defined in any order      *)
(***************************************************************************)
\* platform.registerAgent(name, config)
registerAgent(name) ==
  /\ agents' = agents \cup {name}
  /\ UNCHANGED <<workflowDefined, runVars, clientVars, parseVars, agentVars, callVars,
                 peripheralVars>>

\* platform.defineCoordinatorWorkflow(): refused unless the coordinator and
\* the summarizer agents are registered
defineCoordinatorWorkflow ==
  /\ workflowDefined # "yes"
  /\ workflowDefined' =
       IF "coordinator" \in agents /\ "summarizer" \in agents THEN "yes" ELSE "refused"
  /\ UNCHANGED <<agents, runVars, clientVars, parseVars, agentVars, callVars,
                 peripheralVars>>

\* a platform as constructed: no agent, an empty workflow
InitSetup ==
  /\ InitPlatform
  /\ InitNoParse
  /\ InitAgent
  /\ InitPeripheral
  /\ agents = {}
  /\ workflowDefined = "no"

SetupRegisters ==
  \E name \in {"coordinator", "oracle", "analyst", "degen", "summarizer"} :
    name \notin agents /\ registerAgent(name)

SetupDefines == defineCoordinatorWorkflow

SetupStartRun(r) ==
  /\ workflowDefined = "yes"
  /\ \E m \in UserMessages : onMessage(r, HumanMessage(m))

SetupCoordinatorReplies(r) ==
  /\ Room(r, MaxSetupTurns)
  /\ \E c \in ConcCoordinatorOutputs : coordinatorNode(r, c)

SetupCoordinatorRoutes(r) == coordinatorEdge(r)

SetupAgentReplies(r) ==
  /\ Room(r, MaxSetupTurns)
  /\ \E a \in SpecializedAgents, c \in ConcAgentOutputs : agentNode(r, a, c)

SetupAgentMissing(r) == agentNotFound(r)

SetupSummarizerReplies(r) ==
  /\ Room(r, MaxSetupTurns + 1)
  /\ \E c \in SummarizerOutputs : summarizerNode(r, c)

SetupReplySent(r) == sendMessage(r)

SetupCallbackFails(r) == callbackRejects(r)

NextSetup ==
  \/ SetupRegisters
  \/ SetupDefines
  \/ \E r \in SoloRuns :
       \/ SetupStartRun(r)
       \/ SetupCoordinatorReplies(r)
       \/ SetupCoordinatorRoutes(r)
       \/ SetupAgentReplies(r)
       \/ SetupAgentMissing(r)
       \/ SetupSummarizerReplies(r)
       \/ SetupReplySent(r)
       \/ SetupCallbackFails(r)

SpecSetup == InitSetup /\ [][NextSetup]_vars

(***************************************************************************)
(* Event sources (RSSEventSource, APIEventSource): values and filters      *)
(***************************************************************************)
\* JavaScript values of event fields and of filter values
StringValue(s) == [t |-> "string", s |-> s]

NumberValue(n) == [t |-> "number", n |-> n]

ObjectValue(o) == [t |-> "object", o |-> o]

Undefined == [t |-> "undefined"]

NaN == [t |-> "NaN"]

\* String(value)
String(value) ==
  IF value.t = "string" THEN value.s
  ELSE IF value.t = "number" THEN numberToString(value.n)
  ELSE IF value.t = "undefined" THEN <<"u","n","d","e","f","i","n","e","d">>
  ELSE IF value.t = "NaN" THEN <<"N","a","N">>
  ELSE <<"[","o","b","j","e","c","t"," ","O","b","j","e","c","t","]">>

DigitValue(c) == (CHOOSE i \in 1..Len(Digits) : Digits[i] = c) - 1

\* the value of a non-empty string of decimal digits
RECURSIVE digitsToNumber(_)
digitsToNumber(s) ==
  IF Len(s) = 1 THEN DigitValue(s[1])
  ELSE 10 * digitsToNumber(SubSeq(s, 1, Len(s) - 1)) + DigitValue(s[Len(s)])

\* Number(value) of numbers, of strings of decimal digits and of the values
\* that are no number
Number(value) ==
  IF value.t = "number" THEN value
  ELSE IF value.t = "string"
    THEN IF trim(value.s) = <<>> THEN NumberValue(0)
         ELSE IF \A i \in 1..Len(trim(value.s)) : trim(value.s)[i] \in Range(Digits)
           THEN NumberValue(digitsToNumber(trim(value.s)))
           ELSE NaN
  ELSE NaN

\* new RegExp(pattern) throws a SyntaxError: a group is left open
regExpThrows(pattern) ==
  Len(SelectSeq(pattern, LAMBDA c : c = "(")) # Len(SelectSeq(pattern, LAMBDA c : c = ")"))

\* new RegExp(pattern).test(s) for a literal pattern with optional ^ and $
regExpTest(pattern, s) ==
  LET fromStart == pattern # <<>> /\ Head(pattern) = "^"
      afterStart == IF fromStart THEN Tail(pattern) ELSE pattern
      toEnd == afterStart # <<>> /\ afterStart[Len(afterStart)] = "$"
      body == IF toEnd THEN SubSeq(afterStart, 1, Len(afterStart) - 1) ELSE afterStart
  IN  \E i \in 1..(Len(s) + 1) :
        /\ MatchesAt(s, body, i)
        /\ fromStart => i = 1
        /\ toEnd => i + Len(body) - 1 = Len(s)

\* path.split('.').reduce((current, key) => current?.[key], obj), the path
\* given as its list of keys
RECURSIVE getNestedValue(_, _)
getNestedValue(obj, path) ==
  IF path = <<>> THEN obj
  ELSE getNestedValue(
         IF obj.t = "object" /\ Head(path) \in DOMAIN obj.o THEN obj.o[Head(path)]
         ELSE Undefined,
         Tail(path))

EventFilter(field, operator, value) ==
  [field |-> field, operator |-> operator, value |-> value]

\* evaluating the filter throws, whatever the value
evaluateFilterThrows(filter) ==
  filter.operator = "regex" /\ regExpThrows(String(filter.value))

\* evaluateFilter(value, filter) when it returns
evaluateFilter(value, filter) ==
  IF filter.operator = "equals" THEN value = filter.value
  ELSE IF filter.operator = "contains" THEN includes(String(value), String(filter.value))
  ELSE IF filter.operator = "regex" THEN regExpTest(String(filter.value), String(value))
  ELSE IF filter.operator = "greater_than"
    THEN /\ Number(value) # NaN
         /\ Number(filter.value) # NaN
         /\ Number(value).n > Number(filter.value).n
  ELSE IF filter.operator = "less_than"
    THEN /\ Number(value) # NaN
         /\ Number(filter.value) # NaN
         /\ Number(value).n < Number(filter.value).n
  ELSE TRUE

\* filters.every(...) from filter i on: "true", "false", or "throw" when a
\* filter that is reached throws
RECURSIVE everyFilter(_, _, _)
everyFilter(event, fs, i) ==
  IF i > Len(fs) THEN "true"
  ELSE IF evaluateFilterThrows(fs[i]) THEN "throw"
  ELSE IF evaluateFilter(getNestedValue(event, fs[i].field), fs[i])
    THEN everyFilter(event, fs, i + 1)
    ELSE "false"

\* variant: only the first filter decides
shouldProcessEventFirst(event, fs) ==
  IF fs = <<>> THEN "true" ELSE everyFilter(event, <<fs[1]>>, 1)

\* shouldProcessEvent(event) under the filters fs
shouldProcessEvent(event, fs) ==
  IF fs = <<>> THEN "true" ELSE everyFilter(event, fs, 1)

(***************************************************************************)
(* Event sources: feeds and the monitoring loop                            *)
(***************************************************************************)
RSSItem(guid, link, title, description) ==
  [guid |-> guid, link |-> link, title |-> title, description |-> description]

\* the items a feed may hold: two plain items, one without guid, and one
\* that repeats the guid of the first
FeedItems ==
  << RSSItem(<<"g","1">>, <<"l","1">>, <<"b","t","c"," ","u","p">>, <<"p","r","i","c","e">>),
     RSSItem(<<"g","2">>, <<"l","2">>, <<"e","t","h"," ","n","e","w","s">>, <<"m","e","r","g","e">>),
     RSSItem(<<>>, <<"l","3">>, <<"4","2">>, <<"a","n","s","w","e","r">>),
     RSSItem(<<"g","1">>, <<"l","4">>, <<"b","t","c"," ","a","g","a","i","n">>, <<"p","r","i","c","e">>) >>

\* item.guid || item.link
itemKey(item) == IF item.guid # <<>> THEN item.guid ELSE item.link

\* the event fetchEvents builds of an item (its timestamp left out)
WebEvent(item) ==
  ObjectValue(
    [type |-> StringValue(<<"w","e","b","_","e","v","e","n","t">>),
     source |-> StringValue(<<"r","s","s","_","s","o","u","r","c","e">>),
     title |-> StringValue(item.title),
     content |-> StringValue(item.description),
     url |-> StringValue(item.link),
     metadata |-> ObjectValue(
       [source |-> StringValue(<<"r","s","s">>),
        guid |-> StringValue(item.guid),
        link |-> StringValue(item.link)])])

\* the key of the item an event was built of
eventKey(event) ==
  IF event.o.metadata.o.guid.s # <<>> THEN event.o.metadata.o.guid.s
  ELSE event.o.metadata.o.link.s

\* items.filter(item => !this.lastItems.has(item.guid || item.link))
newItems(items, seen) == SelectSeq(items, LAMBDA item : itemKey(item) \notin seen)

\* what a fetch can bring: no response, or the items of the feed
FetchFailed == [ok |-> FALSE, items |-> <<>>]

FetchedFeed(items) == [ok |-> TRUE, items |-> items]

\* the events fetchEvents returns
fetchEvents(response) ==
  IF ~response.ok THEN <<>>
  ELSE LET new == newItems(response.items, lastItems)
       IN  [i \in 1..Len(new) |-> WebEvent(new[i])]

\* the keys fetchEvents adds to this.lastItems
fetchedKeys(response) ==
  IF ~response.ok THEN {}
  ELSE {itemKey(item) : item \in Range(newItems(response.items, lastItems))}

\* variant: an error in the monitoring loop ends the loop
monitoringLoopCatchExits == "exited"

\* the catch block of monitoringLoop: the loop sleeps and goes on
monitoringLoopCatch == "backoff"

\* checkForNewEvents from event i on, up to its next await: the events the
\* filters reject are skipped; the loop awaits the callback on the first
\* event they accept, sleeps when no event is left, and leaves the cycle
\* when a filter throws
RECURSIVE deliverFrom(_, _, _)
deliverFrom(events, i, fs) ==
  IF i > Len(events) THEN [pc |-> "sleeping", next |-> i, skipped |-> {}]
  ELSE LET verdict == shouldProcessEvent(events[i], fs)
       IN  IF verdict = "throw"
             THEN [pc |-> monitoringLoopCatch, next |-> i, skipped |-> {}]
           ELSE IF verdict = "true"
             THEN [pc |-> "calling", next |-> i, skipped |-> {}]
           ELSE LET rest == deliverFrom(events, i + 1, fs)
                IN  [rest EXCEPT !.skipped = @ \cup {events[i]}]

\* a monitoringLoop() call that has entered a cycle and awaits its fetch
PollCycle(previous) ==
  [pc |-> "fetching", events |-> <<>>, next |-> 0, failure |-> "none",
   previous |-> previous]

\* the loop l goes on from event i of its cycle
resume(l, events, i, failure) ==
  LET d == deliverFrom(events, i, filters)
  IN  /\ loops' = [loops EXCEPT ![l] =
           [pc |-> d.pc, events |-> events, next |-> d.next,
            failure |-> IF d.pc \notin {"calling", "sleeping"} THEN "filter" ELSE failure,
            previous |-> @.previous]]
      /\ skipped' = skipped \cup d.skipped
      /\ delivered' = IF d.pc = "calling" THEN Append(delivered, events[d.next])
                      ELSE delivered

\* start(): a running source is left alone; otherwise the flag is set and
\* monitoringLoop() runs up to the fetch of its first cycle
start ==
  /\ isRunning' = TRUE
  /\ loops' = IF isRunning THEN loops ELSE Append(loops, PollCycle("none"))
  /\ UNCHANGED <<lastItems, delivered, skipped, filters, nonSourceVars>>

\* stop()
stop ==
  /\ isRunning' = FALSE
  /\ UNCHANGED <<loops, lastItems, delivered, skipped, filters, nonSourceVars>>

\* the fetch of loop l settles: fetchEvents returns and checkForNewEvents
\* goes through the events
fetchSettles(l, response) ==
  /\ l \in DOMAIN loops
  /\ loops[l].pc = "fetching"
  /\ lastItems' = lastItems \cup fetchedKeys(response)
  /\ resume(l, fetchEvents(response), 1, IF response.ok THEN "none" ELSE "fetch")
  /\ UNCHANGED <<isRunning, filters, nonSourceVars>>

\* variant: a rejection of the event callback reaches the catch block of
\* monitoringLoop and ends the cycle
callbackSettlesAborts(l, resolved) ==
  /\ l \in DOMAIN loops
  /\ loops[l].pc = "calling"
  /\ IF resolved
     THEN resume(l, loops[l].events, loops[l].next + 1, loops[l].failure)
     ELSE /\ loops' = [loops EXCEPT ![l].pc = monitoringLoopCatch, ![l].failure = "callback"]
          /\ UNCHANGED <<skipped, delivered>>
  /\ UNCHANGED <<isRunning, lastItems, filters, nonSourceVars>>

\* the event callback awaited by loop l settles; a rejection is caught
callbackSettles(l, resolved) ==
  /\ l \in DOMAIN loops
  /\ loops[l].pc = "calling"
  /\ resume(l, loops[l].events, loops[l].next + 1,
            IF resolved THEN loops[l].failure ELSE "callback")
  /\ UNCHANGED <<isRunning, lastItems, filters, nonSourceVars>>

\* the sleep of loop l ends: while (this.isRunning) is evaluated
sleepEnds(l) ==
  /\ l \in DOMAIN loops
  /\ loops[l].pc \in {"sleeping", "backoff"}
  /\ loops' = [loops EXCEPT ![l] =
       IF isRunning THEN PollCycle(loops[l].failure)
       ELSE [@ EXCEPT !.pc = "exited"]]
  /\ UNCHANGED <<isRunning, lastItems, delivered, skipped, filters, nonSourceVars>>

(***************************************************************************)
(* SpecSource: one source started and stopped in any order                 *)
(***************************************************************************)
\* the responses of the feed under SpecSource
SourceResponses ==
  { FetchFailed, FetchedFeed(<<FeedItems[1]>>), FetchedFeed(<<FeedItems[2]>>) }

SourceStarts ==
  /\ isRunning \/ Len(loops) < MaxLoops
  /\ start

SourceStops == stop

SourceFetchSettles ==
  \E l \in DOMAIN loops, response \in SourceResponses : fetchSettles(l, response)

SourceCallbackSettles ==
  \E l \in DOMAIN loops, resolved \in BOOLEAN : callbackSettles(l, resolved)

SourceSleepEnds == \E l \in DOMAIN loops : sleepEnds(l)

NextSource ==
  \/ SourceStarts
  \/ SourceStops
  \/ SourceFetchSettles
  \/ SourceCallbackSettles
  \/ SourceSleepEnds

SpecSource == Init /\ [][NextSource]_vars

(***************************************************************************)
(* SpecFeed: one monitoring loop over any feeds, under any filters         *)
(***************************************************************************)
\* the feeds a fetch may bring
Feeds == UNION { [1..n -> Range(FeedItems)] : n \in 0..MaxFeedLen }

FeedResponses == {FetchFailed} \cup { FetchedFeed(items) : items \in Feeds }

\* the filter lists a source may be configured with
FilterConfigs ==
  { <<>>,
    << EventFilter(<<"title">>, "contains", StringValue(<<"b","t","c">>)) >>,
    << EventFilter(<<"title">>, "contains", StringValue(<<"b","t","c">>)),
       EventFilter(<<"metadata", "guid">>, "equals", StringValue(<<"g","1">>)) >>,
    << EventFilter(<<"title">>, "contains", StringValue(<<"b">>)),
       EventFilter(<<"url">>, "equals", StringValue(<<"l","4">>)) >>,
    << EventFilter(<<"title">>, "regex", StringValue(<<"^","e","t","h">>)) >>,
    << EventFilter(<<"title">>, "greater_than", NumberValue(10)) >>,
    << EventFilter(<<"title">>, "less_than", NumberValue(50)),
       EventFilter(<<"content">>, "equals", StringValue(<<"a","n","s","w","e","r">>)) >>,
    << EventFilter(<<"category">>, "contains", StringValue(<<"c","r","y","p","t","o">>)) >>,
    << EventFilter(<<"title">>, "regex", StringValue(<<"(">>)) >>,
    << EventFilter(<<"title">>, "contains", StringValue(<<"e","t","h">>)),
       EventFilter(<<"title">>, "regex", StringValue(<<"(">>)) >> }

\* the only monitoring loop of SpecFeed
FeedLoops == {1}

InitFeed ==
  /\ InitPlatform
  /\ InitNoParse
  /\ InitAgent
  /\ InitSetupDone
  /\ InitRunning
  /\ isRunning = FALSE
  /\ loops = <<>>
  /\ lastItems = {}
  /\ delivered = <<>>
  /\ skipped = {}
  /\ filters \in FilterConfigs

FeedStarts ==
  /\ loops = <<>>
  /\ start

FeedStops == stop

FeedFetchSettles ==
  \E l \in FeedLoops, response \in FeedResponses : fetchSettles(l, response)

FeedCallbackSettles ==
  \E l \in FeedLoops, resolved \in BOOLEAN : callbackSettles(l, resolved)

FeedSleepEnds == \E l \in FeedLoops : sleepEnds(l)

NextFeed ==
  \/ FeedStarts
  \/ FeedStops
  \/ FeedFetchSettles
  \/ FeedCallbackSettles
  \/ FeedSleepEnds

\* the timers of the loop fire and the awaited callback settles
SpecFeed ==
  /\ InitFeed
  /\ [][NextFeed]_vars
  /\ WF_vars(FeedCallbackSettles)
  /\ WF_vars(FeedSleepEnds)

(***************************************************************************)
(* TelegramClient: response handlers                                       *)
(***************************************************************************)
\* the chats that write to the bot
Chats == {101, 102}

\* the values generateHandlerId() returns
HandlerIds == {"handler_1", "handler_2"}

\* an id generateHandlerId() never returned
UnknownHandlerId == "handler_0"

\* the metadata the text handler attaches to the message
Metadata(chatId, responseHandlerId) ==
  [chatId |-> chatId, responseHandlerId |-> responseHandlerId]

\* a message passed to sendMessage
Response(message, responseMetadata) ==
  [content |-> message.content, metadata |-> responseMetadata]

\* the text of ctx.reply in the catch block of the text handler
Apology ==
  <<"U+274C">> \o <<" ","S","o","r","r","y",","," ","I"," ","e","n","c","o","u","n","t","e","r","e","d"," ","a","n"," ","e","r","r","o","r"," ","p","r","o","c","e","s","s","i","n","g"," ","y","o","u","r"," ","r","e","q","u","e","s","t","."," ","P","l","e","a","s","e"," ","t","r","y"," ","a","g","a","i","n",".">>

\* map.set(key, value)
mapSet(map, key, value) ==
  [k \in DOMAIN map \cup {key} |-> IF k = key THEN value ELSE map[k]]

\* map.delete(key)
mapDelete(map, key) == [k \in DOMAIN map \ {key} |-> map[k]]

\* generateHandlerId(): an id that has not been returned before
FreshHandlerIds ==
  HandlerIds \ (DOMAIN responseHandlers
                  \cup {metadata[r].responseHandlerId : r \in {x \in Runs : metadata[x] # NoMetadata}})

\* variant: the response carries no metadata
preserveMetadataNever(messageMetadata) == NoMetadata

\* registerClient: if (message.metadata) response.metadata = message.metadata
preserveMetadata(messageMetadata) == messageMetadata

\* metadata && metadata.responseHandlerId, and the handler map has the id
handlerFound(responseMetadata) ==
  /\ responseMetadata # NoMetadata
  /\ responseMetadata.responseHandlerId \in DOMAIN responseHandlers

\* TelegramClient.sendMessage(response) called by c, up to the await of the
\* response handler; without a handler the call only logs
sendMessageBegins(c, response) ==
  /\ sendCalls' = Append(sendCalls,
       [caller |-> c, metadata |-> response.metadata,
        invoked |-> handlerFound(response.metadata)])
  /\ inflight' =
       IF handlerFound(response.metadata)
       THEN [inflight EXCEPT ![c] =
              [id |-> response.metadata.responseHandlerId,
               chatId |-> responseHandlers[response.metadata.responseHandlerId],
               content |-> response.content]]
       ELSE inflight
  /\ UNCHANGED <<responseHandlers, outbox>>

\* the response handler awaited for caller c settles: when it resolves the
\* text has gone to the chat and the handler is deleted; a rejection is
\* caught and logged
handlerSettles(c, resolved) ==
  /\ inflight[c] # NoCall
  /\ inflight' = [inflight EXCEPT ![c] = NoCall]
  /\ outbox' =
       IF resolved
       THEN Append(outbox, [chatId |-> inflight[c].chatId, content |-> inflight[c].content,
                            caller |-> c])
       ELSE outbox
  /\ responseHandlers' =
       IF resolved THEN mapDelete(responseHandlers, inflight[c].id) ELSE responseHandlers
  /\ UNCHANGED sendCalls

\* bot.on('text'): a handler for the chat is stored under a new id and the
\* message, carrying the id, is passed to the message callback
textHandler(r, chatId, text, handlerId) ==
  /\ handler[r] = "idle"
  /\ processMessage(r, HumanMessage(text))
  /\ handler' = [handler EXCEPT ![r] = "processing"]
  /\ responseHandlers' = mapSet(responseHandlers, handlerId, chatId)
  /\ metadata' = [metadata EXCEPT ![r] = Metadata(chatId, handlerId)]
  /\ UNCHANGED <<sent, inflight, outbox, sendCalls>>

\* the callback of registerClient resumes when the run has reached __end__:
\* the metadata of the message is put on the response and the response is
\* passed to TelegramClient.sendMessage
telegramReply(r) ==
  /\ handler[r] = "processing"
  /\ pc[r] = "end"
  /\ LET message == lastMessageOf(state[r].messages)
         response == Response(message, preserveMetadata(metadata[r]))
     IN  /\ sent' = [sent EXCEPT ![r] = Append(@, message)]
         /\ sendMessageBegins(r, response)
         /\ handler' = [handler EXCEPT ![r] =
              IF handlerFound(response.metadata) THEN "sending" ELSE "done"]
  /\ UNCHANGED <<metadata, runVars, outsideVars>>

\* the response handler of run r settles and sendMessage returns
telegramReplySettles(r, resolved) ==
  /\ handler[r] = "sending"
  /\ handlerSettles(r, resolved)
  /\ handler' = [handler EXCEPT ![r] = "done"]
  /\ UNCHANGED <<sent, metadata, runVars, outsideVars>>

\* the run has failed: the message callback rejects and the catch block of
\* the text handler replies to the chat
textHandlerCatch(r) ==
  /\ handler[r] = "processing"
  /\ pc[r] = "failed"
  /\ metadata[r] # NoMetadata
  /\ handler' = [handler EXCEPT ![r] = "rejected"]
  /\ outbox' = Append(outbox, [chatId |-> metadata[r].chatId, content |-> Apology,
                               caller |-> r])
  /\ UNCHANGED <<sent, responseHandlers, metadata, inflight, sendCalls, runVars, outsideVars>>

\* client.sendMessage(response) called directly
directSendMessage(response) ==
  /\ inflight[0] = NoCall
  /\ sendMessageBegins(0, response)
  /\ UNCHANGED <<handler, sent, metadata, runVars, outsideVars>>

\* the response handler of a direct call settles
directHandlerSettles(resolved) ==
  /\ handlerSettles(0, resolved)
  /\ UNCHANGED <<handler, sent, metadata, runVars, outsideVars>>

(***************************************************************************)
(* SpecChat: two chats write to the bot, their runs interleave             *)
(***************************************************************************)
\* the summaries of the runs under SpecChat
ChatSummaries == SummarizerOutputs \cup { <<"R","a","i","n"," ","i","s"," ","e","x","p","e","c","t","e","d"," ","t","o","m","o","r","r","o","w">> }

ChatTextArrives(r) ==
  \E chatId \in Chats, text \in UserMessages, handlerId \in FreshHandlerIds :
    textHandler(r, chatId, text, handlerId)

ChatCoordinatorReplies(r) ==
  /\ Room(r, MaxChatTurns)
  /\ \E c \in ConcCoordinatorOutputs : coordinatorNode(r, c)

ChatCoordinatorRoutes(r) == coordinatorEdge(r)

ChatAgentReplies(r) ==
  /\ Room(r, MaxChatTurns)
  /\ \E a \in SpecializedAgents, c \in ConcAgentOutputs : agentNode(r, a, c)

ChatSummarizerReplies(r) ==
  /\ Room(r, MaxChatTurns + 1)
  /\ \E c \in ChatSummaries : summarizerNode(r, c)

ChatReplyBegins(r) == telegramReply(r)

ChatReplySettles(r) == \E resolved \in BOOLEAN : telegramReplySettles(r, resolved)

ChatRunFails(r) == textHandlerCatch(r)

NextChat ==
  \E r \in Runs :
    \/ ChatTextArrives(r)
    \/ ChatCoordinatorReplies(r)
    \/ ChatCoordinatorRoutes(r)
    \/ ChatAgentReplies(r)
    \/ ChatSummarizerReplies(r)
    \/ ChatReplyBegins(r)
    \/ ChatReplySettles(r)
    \/ ChatRunFails(r)

SpecChat == Init /\ [][NextChat]_vars

(***************************************************************************)
(* SpecSession: sendMessage called directly on the Telegram client         *)
(***************************************************************************)
\* the responses passed to sendMessage: without metadata, with the id of a
\* handler, with an id the client never issued
SessionResponses ==
  { Response(AIMessage(text), responseMetadata) :
      text \in SummarizerOutputs,
      responseMetadata \in
        {NoMetadata} \cup
        { Metadata(chatId, id) : chatId \in Chats, id \in HandlerIds \cup {UnknownHandlerId} } }

SessionTextArrives ==
  \E r \in Runs, chatId \in Chats, text \in UserMessages, handlerId \in FreshHandlerIds :
    textHandler(r, chatId, text, handlerId)

SessionSends ==
  /\ Len(sendCalls) < MaxSends
  /\ \E response \in SessionResponses : directSendMessage(response)

SessionHandlerSettles == \E resolved \in BOOLEAN : directHandlerSettles(resolved)

NextSession ==
  \/ SessionTextArrives
  \/ SessionSends
  \/ SessionHandlerSettles

SpecSession == Init /\ [][NextSession]_vars

(***************************************************************************)
(* AgenticPlatform.stop()                                                  *)
(***************************************************************************)
\* what awaiting client.stop() can bring: the CLI client closes its
\* readline; the Telegram client stops its bot, or catches the bot's error
\* and stays as it was
StopOutcomes(client) ==
  IF client = "telegram" THEN {"stopped", "stop failed"} ELSE {"stopped"}

\* what awaiting plugin.cleanup() can bring: only the MCP plugin awaits
\* something, the closing of its connection
CleanupOutcomes(p) == IF p \in McpPluginIds THEN {TRUE, FALSE} ELSE {TRUE}

\* this.plugins.values() of the agent, in iteration order
pluginValues == [i \in 1..Len(pluginOrder) |-> plugins[pluginOrder[i]]]

\* agent.cleanup() is called: cleanup() of the first plugin is awaited, or
\* with no plugin stop() returns
cleanupBegins ==
  IF pluginValues = <<>>
  THEN /\ shutdown' = [phase |-> "done", index |-> 0]
       /\ UNCHANGED cleaned
  ELSE /\ shutdown' = [phase |-> "agents", index |-> 1]
       /\ cleaned' = cleaned \cup {pluginValues[1]}

\* stop() is called: stop() of the first client is awaited
stopBegins ==
  /\ shutdown.phase = "idle"
  /\ shutdown' = [phase |-> "clients", index |-> 1]
  /\ UNCHANGED <<clientStatus, cleaned, sourceVars, platformVars>>

\* the awaited client.stop() settles; after the last client the event
\* source's stop() is called
clientStopSettles(outcome) ==
  /\ shutdown.phase = "clients"
  /\ outcome \in StopOutcomes(Clients[shutdown.index])
  /\ clientStatus' = [clientStatus EXCEPT ![Clients[shutdown.index]] = outcome]
  /\ IF shutdown.index < Len(Clients)
     THEN /\ shutdown' = [shutdown EXCEPT !.index = @ + 1]
          /\ UNCHANGED isRunning
     ELSE /\ shutdown' = [phase |-> "sources", index |-> 1]
          /\ isRunning' = FALSE
  /\ UNCHANGED <<cleaned, loops, lastItems, delivered, skipped, filters, platformVars>>

\* the awaited eventSource.stop() settles and agent.cleanup() is called
sourceStopSettles ==
  /\ shutdown.phase = "sources"
  /\ cleanupBegins
  /\ UNCHANGED <<clientStatus, sourceVars, platformVars>>

\* the awaited plugin.cleanup() settles: a rejection ends agent.cleanup()
\* and stop(); otherwise the next plugin is cleaned up, or stop() returns
cleanupSettles(resolved) ==
  /\ shutdown.phase = "agents"
  /\ resolved \in CleanupOutcomes(pluginValues[shutdown.index])
  /\ IF ~resolved
     THEN /\ shutdown' = [shutdown EXCEPT !.phase = "rejected"]
          /\ UNCHANGED cleaned
     ELSE IF shutdown.index < Len(pluginValues)
     THEN /\ shutdown' = [shutdown EXCEPT !.index = @ + 1]
          /\ cleaned' = cleaned \cup {pluginValues[shutdown.index + 1]}
     ELSE /\ shutdown' = [phase |-> "done", index |-> 0]
          /\ UNCHANGED cleaned
  /\ UNCHANGED <<clientStatus, sourceVars, platformVars>>

(***************************************************************************)
(* SpecShutdown: plugins registered on a started platform, then stop()     *)
(***************************************************************************)
\* a started platform: its clients and its event source are running
InitShutdown ==
  /\ InitPlatform
  /\ InitNoParse
  /\ InitAgent
  /\ InitSetupDone
  /\ InitRunning
  /\ isRunning = TRUE
  /\ loops = <<PollCycle("none")>>
  /\ lastItems = {}
  /\ delivered = <<>>
  /\ skipped = {}
  /\ filters = <<>>

ShutdownPluginInitializes ==
  /\ shutdown.phase = "idle"
  /\ \E p \in DOMAIN PluginCatalogue :
       /\ p \notin registered
       /\ ToolRoom(PluginCatalogue[p].tools, MaxStopTools)
       /\ registerPluginBegins(p)

ShutdownPluginRegistered ==
  /\ shutdown.phase = "idle"
  /\ \E p \in DOMAIN PluginCatalogue : registerPluginCompletes(p)

ShutdownBegins ==
  /\ initializing = {}
  /\ stopBegins

ShutdownClientStopped == \E outcome \in {"stopped", "stop failed"} : clientStopSettles(outcome)

ShutdownSourceStopped == sourceStopSettles

ShutdownPluginCleaned == \E resolved \in BOOLEAN : cleanupSettles(resolved)

NextShutdown ==
  \/ ShutdownPluginInitializes
  \/ ShutdownPluginRegistered
  \/ ShutdownBegins
  \/ ShutdownClientStopped
  \/ ShutdownSourceStopped
  \/ ShutdownPluginCleaned

SpecShutdown == InitShutdown /\ [][NextShutdown]_vars

(***************************************************************************)
(* The workflow's nodes around Agent.processMessage                        *)
(***************************************************************************)
NodeNames == {"coordinator", "summarizer"} \cup SpecializedAgents

\* the turns a node passes to agent.processMessage
nodeInput(r) ==
  IF pc[r] = "summarizer" THEN substantiveMessages(state[r].messages)
  ELSE state[r].messages

\* a node calls agent.processMessage(messages) and awaits it; one Agent
\* stands for the agent of every node
nodeInvokes(r) ==
  /\ pc[r] \in NodeNames
  /\ agentFound(pc[r])
  /\ agentProcessMessage(nodeInput(r))

\* the awaited agent.processMessage resolves with response and the node
\* returns its update
nodeResumes(r) ==
  /\ pc[r] \in NodeNames
  /\ apc = "returned"
  /\ LET response == returned[1]
         selected == parseAgentRoutingResponse(response.content)
     IN  IF pc[r] = "coordinator"
         THEN /\ selectedAgent' = selected
              /\ state' = [state EXCEPT ![r] =
                   applyUpdate(state[r],
                     [messages |-> <<response>>, selectedAgent |-> selected,
                      eventContext |-> NULL, triggerType |-> NULL])]
              /\ pc' = [pc EXCEPT ![r] = "coordinatorEdge"]
              /\ UNCHANGED summarizerInput
         ELSE /\ state' = [state EXCEPT ![r] = applyUpdate(state[r], MessagesOnly(<<response>>))]
              /\ pc' = [pc EXCEPT ![r] = IF pc[r] = "summarizer" THEN "end" ELSE agentEdge(pc[r])]
              /\ summarizerInput' =
                   IF pc[r] = "summarizer"
                   THEN [summarizerInput EXCEPT ![r] = substantiveMessages(state[r].messages)]
                   ELSE summarizerInput
              /\ UNCHANGED selectedAgent
  /\ trace' = [trace EXCEPT ![r] = Append(@, pc[r])]
  /\ apc' = "idle"
  /\ UNCHANGED <<appTools, amessages, modelInput, advertised, invoked, returned,
                 registryVars, clientVars, parseVars, setupVars, callVars, peripheralVars>>

(***************************************************************************)
(* SpecNode: one run whose nodes invoke the agent's tool-use loop          *)
(***************************************************************************)
\* model responses of the invocation in progress
nodeThinkSteps(r) ==
  thinkSteps - Cardinality({i \in 1..Len(nodeInput(r)) : nodeInput(r)[i].type = "ai"})

NodeStartRun ==
  /\ \E m \in UserMessages : processMessage(1, HumanMessage(m))
  /\ UNCHANGED clientVars

NodeInvokes == nodeInvokes(1)

NodeThink ==
  /\ nodeThinkSteps(1) < MaxNodeThinkSteps
  /\ \E response \in ModelResponses(modelTools, thinkSteps + 1) :
       /\ Len(toolCallsOf(response)) <= 1
       /\ callModel(response)

NodeRoute == shouldContinue

NodeAct == \E outcome \in Returns : toolNode(<<outcome>>)

NodeInvocationReturns == agentReturns

NodeResumes == nodeResumes(1)

NodeCoordinatorRoutes == coordinatorEdge(1)

NextNode ==
  \/ NodeStartRun
  \/ NodeInvokes
  \/ NodeThink
  \/ NodeRoute
  \/ NodeAct
  \/ NodeInvocationReturns
  \/ NodeResumes
  \/ NodeCoordinatorRoutes

SpecNode == Init /\ [][NextNode]_vars

(***************************************************************************)
(* SpecBrief: one run seeded by brief or marker-carrying user turns        *)
(***************************************************************************)
\* what a user may write: a greeting, a question that happens to hold the
\* words "routing to", a request that holds "fallback", a longer question
BriefUserMessages ==
  { <<"H","i">>,
    <<"I","s"," ","r","o","u","t","i","n","g"," ","t","o"," ","d","e","g","e","n"," ","o","k","?">>,
    <<"A","n","y"," ","f","a","l","l","b","a","c","k"," ","p","l","a","n","?">>,
    <<"W","h","a","t"," ","i","s"," ","t","h","e"," ","g","a","s"," ","p","r","i","c","e","?">> }

BriefCoordinatorOutputs == { <<"d","o","n","e">>, <<"o","r","a","c","l","e">>, <<"a","n","a","l","y","s","t">> }

BriefStartRun == \E m \in BriefUserMessages : onMessage(1, HumanMessage(m))

BriefCoordinatorReplies ==
  /\ Room(1, MaxBriefTurns)
  /\ \E c \in BriefCoordinatorOutputs : coordinatorNode(1, c)

BriefCoordinatorRoutes == coordinatorEdge(1)

BriefAgentReplies ==
  /\ Room(1, MaxBriefTurns)
  /\ \E a \in SpecializedAgents, c \in AgentOutputs : agentNode(1, a, c)

BriefSummarizerReplies ==
  /\ Room(1, MaxBriefTurns + 1)
  /\ \E c \in SummarizerOutputs : summarizerNode(1, c)

BriefReplySent == sendMessage(1)

NextBrief ==
  \/ BriefStartRun
  \/ BriefCoordinatorReplies
  \/ BriefCoordinatorRoutes
  \/ BriefAgentReplies
  \/ BriefSummarizerReplies
  \/ BriefReplySent

SpecBrief == Init /\ [][NextBrief]_vars

(***************************************************************************)
(* SpecParse: parseAgentRoutingResponse applied to wrapped tokens          *)
(***************************************************************************)
ParsePrefixes ==
  { <<>>, <<"\"">>, <<"[">>, <<"R","o","u","t","i","n","g"," ","t","o"," ">>, <<"I"," ","p","i","c","k"," ">>, <<" ">>, <<"c","o","o","r","d","i","n","a","t","o","r"," ","s","a","y","s"," ">> }

ParseTokens ==
  { <<"o","r","a","c","l","e">>, <<"a","n","a","l","y","s","t">>, <<"d","e","g","e","n">>, <<"d","o","n","e">>, <<"c","o","m","p","l","e","t","e">>,
    <<"O","R","A","C","L","E">>, <<"D","e","g","e","n">>, <<"d","(","o",")","n","e">>, <<"c","o","o","r","d","i","n","a","t","o","r">>, <<"s","u","m","m","a","r","i","z","e","r">>,
    <<"m","a","y","b","e">>, <<>> }

ParseSuffixes ==
  { <<>>, <<"\"">>, <<"]">>, <<" ","a","g","e","n","t">>, <<".",".",".">>, <<" ","a","g","e","n","t",","," ","t","h","e","n"," ","d","o","n","e">>, <<"\n">>, <<" ","i","s"," ","b","e","s","t">> }

ParseInputs ==
  { p \o t \o s : p \in ParsePrefixes, t \in ParseTokens, s \in ParseSuffixes }

InitParse ==
  /\ InitPlatform
  /\ InitAgent
  /\ InitSetupDone
  /\ InitPeripheral
  /\ rawContent \in ParseInputs
  /\ route = "none"

ParseRouting ==
  /\ route = "none"
  /\ route' = parseAgentRoutingResponse(rawContent)
  /\ UNCHANGED <<nonParseVars, rawContent>>

NextParse == ParseRouting

SpecParse == InitParse /\ [][NextParse]_vars

(***************************************************************************)
(* Vocabulary of the properties                                            *)
(***************************************************************************)
IsPrefix(s, t) == Len(s) <= Len(t) /\ SubSeq(t, 1, Len(s)) = s

\* the last turn of run r, lower-cased
LastUtterance(r) == toLowerCase(state[r].messages[Len(state[r].messages)].content)

\* the text contains "done", "complete" or "finished"
ContainsCompletionWord(text) ==
  \E w \in { <<"d","o","n","e">>, <<"c","o","m","p","l","e","t","e">>, <<"f","i","n","i","s","h","e","d">> } : includes(text, w)

\* the route canonicalized from the run's own last turn
OwnRoute(r) == parseAgentRoutingResponse(state[r].messages[Len(state[r].messages)].content)

\* run r takes its conditional edge in this step
TakesEdge(r) == pc[r] = "coordinatorEdge" /\ pc'[r] # pc[r]

\* the text produced by the i-th node execution of run r
OutputOf(r, i) == state[r].messages[i + 1].content

\* C1: the transcript of a run before a step is a prefix of the transcript
\* after it: turns are only appended, never removed, replaced or reordered.
C1_TranscriptAppendOnly ==
  [][\A r \in Runs : IsPrefix(state[r].messages, state'[r].messages)]_vars

C1_Witness ==
  \E r \in Runs :
    /\ Len(state[r].messages) >= 4
    /\ trace[r] = <<"coordinator", "oracle", "coordinator">>

\* C2: the node a run executes after its coordinator step is the one decided
\* by its own coordinator output and transcript, whatever other runs do.
C2_RunsIsolated ==
  [][\A r \in Runs :
       TakesEdge(r) =>
         pc'[r] = LET next == coordinatorRoute(state[r].messages, OwnRoute(r))
                  IN  IF next \in PathMap THEN next ELSE "failed"]_vars

\* C3: no run raises a failure: every run is led to the summarizer and the
\* terminal state.
C3_RunNeverFails == \A r \in Runs : pc[r] # "failed"

\* C4: once a coordinator utterance contains "done", "complete" or
\* "finished", the node executed next is the summarizer and no specialized
\* agent executes afterwards.
C4_MarkerLeadsToSummarizer ==
  \A r \in Runs : \A i \in 1..Len(trace[r]) :
    (trace[r][i] = "coordinator" /\ ContainsCompletionWord(toLowerCase(OutputOf(r, i))))
      => /\ \A j \in (i + 1)..Len(trace[r]) : trace[r][j] = "summarizer"
         /\ pc[r] \in {"coordinatorEdge", "summarizer", "end"}
         /\ pc[r] = "coordinatorEdge" => i = Len(trace[r])

C4_Witness ==
  \E r \in Runs :
    /\ pc[r] = "end"
    /\ Len(trace[r]) = 4
    /\ OutputOf(r, 3) = <<"I"," ","a","m"," ","F","i","n","i","s","h","e","d">>
    /\ parseAgentRoutingResponse(OutputOf(r, 3)) = "oracle"

\* C5: when the route canonicalized from the coordinator's output is done
\* or complete, the run goes from the coordinator to the summarizer.
C5_DoneRouteLeadsToSummarizer ==
  [][\A r \in Runs :
       (TakesEdge(r) /\ OwnRoute(r) \in {"done", "complete"})
         => pc'[r] = "summarizer"]_vars

\* the loop-detection condition, as the claim words it
C8_Recent(r) == lastN(state[r].messages, 4)

C8_RoutingChatter(r) ==
  { k \in 1..Len(C8_Recent(r)) :
      \/ includes(trim(toLowerCase(C8_Recent(r)[k].content)), <<"r","o","u","t","i","n","g"," ","t","o">>)
      \/ includes(trim(toLowerCase(C8_Recent(r)[k].content)), <<"a","g","e","n","t">>) }

C8_DistinctLong(r) ==
  { trim(toLowerCase(C8_Recent(r)[k].content)) :
      k \in { n \in 1..Len(C8_Recent(r)) :
                Len(trim(toLowerCase(C8_Recent(r)[n].content))) > 10 } }

C8_LoopCondition(r) ==
  /\ Len(state[r].messages) > 4
  /\ \/ Cardinality(C8_RoutingChatter(r)) >= 3
     \/ Cardinality(C8_DistinctLong(r)) <= 2

\* C6: with no other run started, a coordinator output that is exactly the
\* name of a specialized agent, without completion word and without loop
\* detection, makes that agent the next node.
C6_AgentNameRoutesToAgent ==
  [][\A r \in Runs : \A a \in SpecializedAgents :
       ( /\ TakesEdge(r)
         /\ \A q \in Runs \ {r} : pc[q] = "idle"
         /\ state[r].messages[Len(state[r].messages)].content = RouteText[a]
         /\ ~ContainsCompletionWord(LastUtterance(r))
         /\ ~C8_LoopCondition(r) )
         => pc'[r] = a]_vars

C6_Witness ==
  \E r \in Runs :
    /\ pc[r] = "degen"
    /\ Len(state[r].messages) = 6
    /\ state[r].messages[6].content = <<"d","e","g","e","n">>
    /\ ~C8_LoopCondition(r)

\* C7: the first node is the coordinator, a specialized agent is always
\* followed by the coordinator, the summarizer executes at most once, as the
\* last node, and is followed by termination.
C7_NodeOrder ==
  \A r \in Runs :
    /\ pc[r] # "idle" /\ trace[r] = <<>> => pc[r] = "coordinator"
    /\ trace[r] # <<>> => trace[r][1] = "coordinator"
    /\ \A i \in 1..Len(trace[r]) :
         /\ trace[r][i] \in SpecializedAgents =>
              IF i < Len(trace[r]) THEN trace[r][i + 1] = "coordinator"
              ELSE pc[r] = "coordinator"
         /\ trace[r][i] = "summarizer" => i = Len(trace[r]) /\ pc[r] = "end"
    /\ pc[r] = "end" => trace[r][Len(trace[r])] = "summarizer"

C7_Witness ==
  \E r \in Runs :
    /\ pc[r] = "end"
    /\ trace[r] = <<"coordinator", "analyst", "coordinator", "degen", "coordinator", "summarizer">>

\* C8: with more than 4 turns, three routing-like turns among the last 4, or
\* at most 2 distinct contents longer than 10 characters among them, send
\* the run to the summarizer, after which only termination follows; with 4
\* turns or fewer the route parsed from the coordinator's output is taken.
C8_LoopDetection ==
  [][\A r \in Runs :
       /\ (TakesEdge(r) /\ C8_LoopCondition(r)) => pc'[r] = "summarizer"
       /\ ( /\ TakesEdge(r)
            /\ Len(state[r].messages) <= 4
            /\ ~ContainsCompletionWord(LastUtterance(r))
            /\ OwnRoute(r) \in SpecializedAgents ) => pc'[r] = OwnRoute(r)
       /\ pc[r] = "summarizer" => pc'[r] \in {"summarizer", "end"}]_vars

C8_Witness ==
  \E r \in Runs :
    /\ pc[r] = "summarizer"
    /\ Len(state[r].messages) = 6
    /\ ~ContainsCompletionWord(LastUtterance(r))
    /\ Cardinality(C8_RoutingChatter(r)) >= 3
    /\ Cardinality(C8_DistinctLong(r)) > 2

\* C9: when the coordinator answers oracle, then analyst, then degen, the
\* run executes oracle, analyst and degen in that order.
C9_ThreeAgentsInSequence ==
  \A r \in Runs :
    ( /\ Len(trace[r]) >= 5
      /\ SubSeq(trace[r], 1, 5) =
           <<"coordinator", "oracle", "coordinator", "analyst", "coordinator">>
      /\ OutputOf(r, 1) = <<"o","r","a","c","l","e">>
      /\ OutputOf(r, 3) = <<"a","n","a","l","y","s","t">>
      /\ OutputOf(r, 5) = <<"d","e","g","e","n">>
      /\ pc[r] # "coordinatorEdge" )
      => IF Len(trace[r]) = 5 THEN pc[r] = "degen" ELSE trace[r][6] = "degen"

\* C10: a text with exactly one of oracle, analyst, degen, done, complete
\* as a substring is canonicalized to that token, a text with none of them
\* to oracle.
C10_Vocabulary == {"oracle", "analyst", "degen", "done", "complete"}

C10_Present(text) ==
  { v \in C10_Vocabulary : includes(toLowerCase(text), RouteText[v]) }

C10_Canonicalization ==
  route # "none" =>
    /\ Cardinality(C10_Present(rawContent)) = 1 => route \in C10_Present(rawContent)
    /\ C10_Present(rawContent) = {} => route = "oracle"

\* C11: every routing token returned by the canonicalization is one of
\* oracle, analyst, degen, done, complete; coordinator and summarizer are
\* never returned.
C11_RouteInVocabulary == route # "none" => route \in C10_Vocabulary

\* C12: whatever the coordinator outputs, the coordinator step ends by
\* selecting one of the nodes oracle, analyst, degen or summarizer; no
\* output makes the run fail with an unknown next node.
C12_Selectable == {"oracle", "analyst", "degen", "summarizer"}

C12_RoutingErrorNeverFatal ==
  [][\A r \in Runs : TakesEdge(r) => pc'[r] \in C12_Selectable]_vars

\* C13: in every reachable state the selectedAgent of a run's state is the
\* name of a registered node or one of the sentinels done and complete.
C13_RegisteredNodes == {"coordinator", "oracle", "analyst", "degen", "summarizer"}

C13_SelectedAgentRegistered ==
  \A r \in Runs : state[r].selectedAgent \in C13_RegisteredNodes \cup {"done", "complete"}

\* the claim's filter, written turn by turn
C14_Markers == { <<"r","o","u","t","i","n","g"," ","t","o">>, <<"w","o","r","k","f","l","o","w"," ","c","o","m","p","l","e","t","e">>, <<"f","a","l","l","b","a","c","k">> }

C14_Substantive(turn) ==
  /\ \A marker \in C14_Markers : ~includes(toLowerCase(turn.content), marker)
  /\ Len(trim(turn.content)) > 10

RECURSIVE C14_SubstantiveTurns(_)
C14_SubstantiveTurns(turns) ==
  IF turns = <<>> THEN <<>>
  ELSE IF C14_Substantive(Head(turns))
       THEN <<Head(turns)>> \o C14_SubstantiveTurns(Tail(turns))
       ELSE C14_SubstantiveTurns(Tail(turns))

\* the transcript of run r as the summarizer node received it
C14_TranscriptBeforeSummary(r) == SubSeq(state[r].messages, 1, Len(state[r].messages) - 1)

\* C14: the turns handed to the summarizer agent are exactly the turns of the
\* transcript, in order, that contain none of "routing to", "workflow
\* complete", "fallback" (case-insensitively) and whose trimmed text is
\* longer than 10 characters.
C14_SummarizerFiltering ==
  \A r \in Runs :
    pc[r] = "end" =>
      summarizerInput[r] = C14_SubstantiveTurns(C14_TranscriptBeforeSummary(r))

\* a summarized transcript of 2 substantive and 2 meta turns (one carrying
\* a marker, one too short), of which 2 turns reached the summarizer
C14_Witness ==
  \E r \in Runs :
    /\ pc[r] = "end"
    /\ Len(state[r].messages) = 5
    /\ Len(summarizerInput[r]) = 2
    /\ \E i \in 1..4 : includes(toLowerCase(state[r].messages[i].content), <<"r","o","u","t","i","n","g"," ","t","o">>)
    /\ \E i \in 1..4 : Len(trim(state[r].messages[i].content)) <= 10

\* the turn appended by the summarizer node of run r
C15_SummaryTurn(r) ==
  state[r].messages[1 + CHOOSE i \in 1..Len(trace[r]) : trace[r][i] = "summarizer"]

\* C15: once the client's callback for an inbound message has finished,
\* sendMessage has been called exactly once, with the turn appended by the
\* summarizer node.
C15_ReplyIsSummary ==
  \A r \in Runs :
    handler[r] \in {"done", "rejected"} =>
      /\ Len(sent[r]) = 1
      /\ "summarizer" \in {trace[r][i] : i \in 1..Len(trace[r])}
      /\ sent[r][1] = C15_SummaryTurn(r)

\* the last turn of the agent's invocation
C16_LastTurn == amessages[Len(amessages)]

C16_IsModelResponse(msg) == msg.type = "ai"

C16_RequestsTools(msg) == C16_IsModelResponse(msg) /\ Len(toolCallsOf(msg)) > 0

C16_IsFinalAnswer(msg) == C16_IsModelResponse(msg) /\ Len(toolCallsOf(msg)) = 0

\* the invocation ends at the first model response without tool requests,
\* and that response is the turn returned
C16_EndsAtFirstFinalAnswer ==
  /\ apc \in {"end", "returned"} =>
       /\ C16_IsFinalAnswer(C16_LastTurn)
       /\ \A i \in 1..(Len(amessages) - 1) : ~C16_IsFinalAnswer(amessages[i])
  /\ apc = "returned" => returned = <<C16_LastTurn>>
  /\ apc # "returned" => returned = <<>>

\* every model response that requests tools and has been acted upon is
\* followed by one tool-result turn per request, in order, and then by the
\* next model response
C16_ActFollowsThink ==
  \A i \in 1..Len(amessages) :
    (C16_RequestsTools(amessages[i]) /\ i < Len(amessages)) =>
      LET calls == toolCallsOf(amessages[i])
      IN  /\ i + Len(calls) <= Len(amessages)
          /\ \A k \in 1..Len(calls) :
               /\ amessages[i + k].type = "tool"
               /\ amessages[i + k].tool_call_id = calls[k].id
          /\ i + Len(calls) < Len(amessages) =>
               C16_IsModelResponse(amessages[i + Len(calls) + 1])

\* the model is invoked on the whole turn sequence so far
C16_ThinkSeesAllTurns ==
  (apc = "shouldContinue") =>
    LET before == SubSeq(amessages, 1, Len(amessages) - 1)
    IN  /\ Len(modelInput) >= Len(before)
        /\ SubSeq(modelInput, Len(modelInput) - Len(before) + 1, Len(modelInput)) = before

\* where the invocation stands agrees with its last turn
C16_Position ==
  /\ apc = "tools" => C16_RequestsTools(C16_LastTurn)
  /\ (apc = "agent" /\ thinkSteps > 0) => C16_LastTurn.type = "tool"

\* C16: processMessage alternates THINK and ACT: after each model response
\* that requests tools the tools node runs and the model is invoked again on
\* the extended turn sequence; the loop ends exactly at the first model
\* response without tool requests, which is the turn returned; and once the
\* model has given such a response processMessage returns.
C16_ThinkActLoop ==
  /\ [](C16_EndsAtFirstFinalAnswer /\ C16_ActFollowsThink
          /\ C16_ThinkSeesAllTurns /\ C16_Position)
  /\ ((apc = "shouldContinue" /\ C16_IsFinalAnswer(C16_LastTurn)) ~> (apc = "returned"))

\* an invocation that returned after two rounds of tool use
C16_Witness ==
  /\ apc = "returned"
  /\ thinkSteps = 3
  /\ \E i \in 1..Len(amessages) : amessages[i].type = "tool"

\* the tool-result turn of a performed invocation carries the error text
C17_ErrorCaptured(invocation) ==
  \E j \in 1..Len(amessages) :
    /\ amessages[j].type = "tool"
    /\ amessages[j].tool_call_id = invocation.id
    /\ \E e \in ToolErrors : includes(amessages[j].content, e)

\* C17: when a capability invoked by the tools node throws, a tool-result
\* turn carrying the error message is appended, the invocation goes on to
\* another model call instead of ending or raising, and no requested
\* invocation is performed twice.
C17_FailureIsolation ==
  /\ [][(apc = "tools" /\ apc' # apc) => apc' = "agent"]_vars
  /\ [](\A i \in 1..Len(invoked) :
          /\ invoked[i].kind = "throws" => C17_ErrorCaptured(invoked[i])
          /\ \A j \in 1..Len(invoked) : invoked[i].id = invoked[j].id => i = j)

\* a capability threw and the model has been invoked again since
C17_Witness ==
  /\ \E i \in 1..Len(invoked) : invoked[i].kind = "throws"
  /\ C16_IsModelResponse(C16_LastTurn)
  /\ thinkSteps >= 2

\* C18: in every model invocation the agent's persona is the first turn
\* passed to the model and appears exactly once.
C18_PersonaFirstOnce ==
  modelInput # <<>> =>
    /\ modelInput[1] = SystemMessage(persona)
    /\ Cardinality({i \in 1..Len(modelInput) : modelInput[i] = SystemMessage(persona)}) = 1

\* C19: the tools advertised to the model in a THINK step are the tools the
\* following ACT step can execute.
C19_OneBindingPerStep == apc = "tools" => advertised = appTools

\* C20: the capability list is the construction-time tools followed by all
\* added tools in the order of the calls, and the model binding and the tool
\* node of the workflow are built from that whole list.
C20_CapabilityList ==
  /\ tools = ConstructionTools \o addedTools
  /\ modelTools = tools
  /\ workflowTools = tools

\* tools were added directly and then by a plugin
C20_Witness ==
  /\ Len(addedTools) = 3
  /\ addedTools[1] = "evaluate_startup"
  /\ plugins["erc20"] = "erc20"
  /\ initializing = {}

\* C21: defineCoordinatorWorkflow is refused when the coordinator or the
\* summarizer agent is not registered; a run that reaches the node of an
\* unregistered specialized agent fails there, the failure reaches the caller
\* of processMessage, and a failed run produced no summarizer reply.
C21_Required == {"coordinator", "summarizer"}

C22_JustSeeded(r) ==
  /\ eventArgs[r].event # NULL
  /\ pc[r] = "coordinator"
  /\ trace[r] = <<>>

\* the fields of the event that its rendered turn shows
C22_ShownFields(event) ==
  IF event.type = "web_event"
  THEN {event.source, event.title, event.content}
  ELSE {event.network, event.eventType}

C22_DefaultAgent(event) == IF event.type = "onchain_event" THEN "degen" ELSE "oracle"

\* an agent name was passed as preferredAgent
C22_Preferred(r) == eventArgs[r].preferredAgent \notin {NULL, ""}

C23_PreferredAgentRunsFirst ==
  \A r \in Runs :
    eventArgs[r].preferredAgent \in SpecializedAgents =>
      \A i \in 1..Len(trace[r]) :
        (trace[r][i] \in SpecializedAgents
           /\ \A j \in 1..(i - 1) : trace[r][j] \notin SpecializedAgents)
          => trace[r][i] = eventArgs[r].preferredAgent

\* the monitoringLoop() calls that have not returned
C24_AliveLoops == {l \in DOMAIN loops : loops[l].pc # "exited"}

\* the loops whose fetch is in flight
C24_Fetching == {l \in DOMAIN loops : loops[l].pc = "fetching"}

\* C24: for one event source, under any sequence of start() and stop()
\* calls, at most one monitoring loop is alive and at most one fetch is in
\* flight at any time.
C24_PollSerialized ==
  /\ Cardinality(C24_AliveLoops) <= 1
  /\ Cardinality(C24_Fetching) <= 1

\* the cycle loop l is in has met a failure: its fetch failed, a filter
\* threw or the event callback threw
C25_CycleFailed(l) == l \in DOMAIN loops /\ loops[l].failure # "none"

\* loop l has started the poll cycle that follows a failed one
C25_NextCycleStarted(l) ==
  /\ l \in DOMAIN loops
  /\ loops[l].pc = "fetching"
  /\ loops[l].previous # "none"

\* C25: a polling failure never terminates the poller: a monitoring loop
\* returns only when it finds the source stopped, and while the source is
\* running, after a cycle in which the fetch failed, a filter threw or the
\* event callback threw, the loop eventually starts another poll cycle.
C25_FailureNeverTerminates ==
  /\ [][\A l \in FeedLoops :
          (l \in DOMAIN loops /\ loops[l].pc # "exited" /\ loops'[l].pc = "exited")
            => ~isRunning]_vars
  /\ \A l \in FeedLoops :
       (C25_CycleFailed(l) /\ isRunning) ~> (~isRunning \/ C25_NextCycleStarted(l))

\* the loop is in the cycle after one in which a filter threw
C25_Witness ==
  /\ isRunning
  /\ C25_NextCycleStarted(1)
  /\ loops[1].previous = "filter"

\* C26: across any sequence of polls of one RSS source and any feed
\* contents, the event callback is invoked at most once per item key
\* (guid, or link when guid is empty), and the set of seen keys only grows.
C26_OncePerKey ==
  /\ [](\A i, j \in 1..Len(delivered) :
          i # j => eventKey(delivered[i]) # eventKey(delivered[j]))
  /\ [][lastItems \subseteq lastItems']_vars

\* the event satisfies every configured filter
C27_Satisfies(event) ==
  \A i \in 1..Len(filters) :
    /\ ~evaluateFilterThrows(filters[i])
    /\ evaluateFilter(getNestedValue(event, filters[i].field), filters[i])

\* the loops that have gone through the events of their cycle
C27_CycleOver == {l \in DOMAIN loops : loops[l].pc \in {"sleeping", "backoff"}}

\* C27: a fetched event is passed to the event callback if and only if it
\* satisfies every configured filter: every event passed satisfies them all,
\* no event the source skipped does, and once a cycle is over every fetched
\* event that satisfies them has been passed; with an empty filter list
\* every fetched event is passed.
C27_PassedIffAllFiltersHold ==
  /\ \A i \in 1..Len(delivered) : C27_Satisfies(delivered[i])
  /\ \A event \in skipped : ~C27_Satisfies(event)
  /\ \A l \in C27_CycleOver :
       \A i \in 1..Len(loops[l].events) :
         C27_Satisfies(loops[l].events[i]) => loops[l].events[i] \in Range(delivered)
  /\ filters = <<>> => skipped = {}

\* under two filters, one event of a cycle was passed and another, which
\* satisfies the first filter only, was skipped
C27_Witness ==
  /\ Len(filters) = 2
  /\ delivered # <<>>
  /\ \E event \in skipped :
       evaluateFilter(getNestedValue(event, filters[1].field), filters[1])
  /\ C27_CycleOver # {}

\* the texts sent to chats on behalf of run r
C28_SentFor(r) == SelectSeq(outbox, LAMBDA entry : entry.caller = r)

\* the calls of sendMessage made by the callback of run r
C28_CallsOf(r) == SelectSeq(sendCalls, LAMBDA call : call.caller = r)

\* the response handler of run r has sent the reply and has been deleted
C28_Delivered(r) ==
  /\ handler[r] = "done"
  /\ metadata[r].responseHandlerId \notin DOMAIN responseHandlers

\* C28: when messages from several chats are processed concurrently, each
\* run's response carries the metadata of the message that seeded the run
\* and finds that message's handler; whatever is sent for the run goes to
\* the chat that seeded it, at most once, and a delivered reply is the last
\* turn of that run.
C28_ReplyToSeedingChat ==
  \A r \in Runs :
    /\ \A i \in 1..Len(C28_CallsOf(r)) :
         /\ C28_CallsOf(r)[i].metadata = metadata[r]
         /\ C28_CallsOf(r)[i].invoked
    /\ \A i \in 1..Len(C28_SentFor(r)) :
         C28_SentFor(r)[i].chatId = metadata[r].chatId
    /\ Len(C28_SentFor(r)) <= 1
    /\ C28_Delivered(r) =>
         /\ Len(C28_SentFor(r)) = 1
         /\ C28_SentFor(r)[1].content = lastMessageOf(state[r].messages).content

\* two runs were seeded from different chats and each chat received the
\* reply of its own run, the second run's first; the replies differ
C28_Witness ==
  /\ \A r \in Runs : C28_Delivered(r)
  /\ metadata[1].chatId # metadata[2].chatId
  /\ outbox[1].caller = 2
  /\ outbox[1].content # outbox[2].content

\* the calls of sendMessage that invoked the handler stored under id
C29_Invocations(id) ==
  SelectSeq(sendCalls, LAMBDA call : call.invoked /\ call.metadata.responseHandlerId = id)

\* C29: over any calls of sendMessage, a response handler is invoked at
\* most once (the call that finds it removes it, a second call with the
\* same id invokes nothing), and a call without metadata or with an unknown
\* id invokes no handler.
C29_HandlerInvokedOnce ==
  /\ \A id \in HandlerIds : Len(C29_Invocations(id)) <= 1
  /\ \A i \in 1..Len(sendCalls) :
       (sendCalls[i].metadata = NoMetadata
          \/ sendCalls[i].metadata.responseHandlerId = UnknownHandlerId)
         => ~sendCalls[i].invoked

\* C30: once AgenticPlatform.stop() has ended, by returning or by rejecting,
\* every client whose own stop() did not fail is stopped, the event source
\* is stopped, and cleanup() has been called on every plugin that was ever
\* registered with the agent, two plugins registered under the same config
\* name included.
C30_Ended == shutdown.phase \in {"done", "rejected"}

C30_ShutdownTearsDown ==
  C30_Ended =>
    /\ \A i \in DOMAIN Clients : clientStatus[Clients[i]] # "running"
    /\ ~isRunning
    /\ registered \subseteq cleaned

\* the nodes of scenario 1, in execution order
C31_Nodes == <<"coordinator", "oracle", "coordinator", "summarizer">>

\* the coordinator's first reply is "oracle" and its second reply, if given,
\* is "done"
C31_Scenario(r) ==
  /\ Len(state[r].messages) >= 2
  /\ state[r].messages[2].content = <<"o","r","a","c","l","e">>
  /\ Len(state[r].messages) >= 4 => state[r].messages[4].content = <<"d","o","n","e">>

\* C31: in a run whose coordinator first answers "oracle" and, after the
\* oracle agent's turn, answers "done", the executed nodes are coordinator,
\* oracle, coordinator, summarizer, in that order and no others, the run
\* then terminates without failing, and the only reply sent to the client
\* is the summarizer's turn.
C31_ScenarioOne ==
  \A r \in Runs :
    C31_Scenario(r) =>
      /\ Len(state[r].messages) <= 5
      /\ trace[r] = SubSeq(C31_Nodes, 1, Len(state[r].messages) - 1)
      /\ pc[r] \in CASE Len(trace[r]) = 1 -> {"coordinatorEdge", "oracle"}
                     [] Len(trace[r]) = 2 -> {"coordinator"}
                     [] Len(trace[r]) = 3 -> {"coordinatorEdge", "summarizer"}
                     [] OTHER -> {"end"}
      /\ handler[r] # "rejected"
      /\ sent[r] = IF handler[r] = "done" THEN <<state[r].messages[5]>> ELSE <<>>

\* scenario 1 has run to its end and its reply has been sent
C31_Witness ==
  \E r \in Runs :
    /\ C31_Scenario(r)
    /\ trace[r] = C31_Nodes
    /\ pc[r] = "end"
    /\ handler[r] = "done"

\* the turn is a tool request or a tool result of an agent's inner loop
C32_InnerTurn(msg) == msg.type = "tool" \/ Len(toolCallsOf(msg)) > 0

\* C32: after k node executions the transcript of a run has 1 + k turns, and
\* none of its turns is a tool-request or a tool-result turn of an agent's
\* inner tool-use loop.
C32_OneTurnPerNode ==
  \A r \in Runs :
    pc[r] # "idle" =>
      /\ Len(state[r].messages) = 1 + Len(trace[r])
      /\ \A i \in 1..Len(state[r].messages) : ~C32_InnerTurn(state[r].messages[i])

\* a run has ended after a specialized agent and the summarizer ran, and
\* the last invocation went through a tool request and its result
C32_Witness ==
  \E r \in Runs :
    /\ pc[r] = "end"
    /\ \E i \in 1..Len(trace[r]) : trace[r][i] \in SpecializedAgents
    /\ \E i \in 1..Len(amessages) : C32_InnerTurn(amessages[i])

\* C33: the turn sequence handed to the summarizer agent of a run is not
\* empty and contains the inbound user turn that seeded the run.
C33_SummarizerSeesUserTurn ==
  \A r \in Runs :
    "summarizer" \in Range(trace[r]) =>
      /\ summarizerInput[r] # <<>>
      /\ state[r].messages[1] \in Range(summarizerInput[r])

\* the node whose execution this step completes in run r
C34_Executed(r) == trace'[r][Len(trace'[r])]

\* C34: a node execution leaves eventContext and triggerType unchanged, and
\* leaves selectedAgent unchanged unless the node is the coordinator; from
\* its seeding to its end an event-seeded run keeps the event as
\* eventContext and "event" as triggerType.
C34_NodeFrame ==
  /\ [][\A r \in Runs :
          trace'[r] # trace[r] =>
            /\ state'[r].eventContext = state[r].eventContext
            /\ state'[r].triggerType = state[r].triggerType
            /\ C34_Executed(r) # "coordinator" =>
                 state'[r].selectedAgent = state[r].selectedAgent]_vars
  /\ [](\A r \in Runs :
          (eventArgs[r].event # NULL /\ pc[r] \notin {"idle", "thrown"}) =>
            /\ state[r].eventContext = eventArgs[r].event
            /\ state[r].triggerType = "event")

\* an event-seeded run has ended after a coordinator, a specialized agent
\* and the summarizer executed
C34_Witness ==
  \E r \in Runs :
    /\ pc[r] = "end"
    /\ eventArgs[r].event # NULL
    /\ \E i \in 1..Len(trace[r]) : trace[r][i] \in SpecializedAgents
    /\ state[r].selectedAgent # AgentState.selectedAgent

\* C35: while an event source is stopped (stop() was called and start() has
\* not been called since), no monitoring loop starts a fetch and the event
\* callback is not invoked.
C35_StoppedSourceIsQuiet ==
  [][(~isRunning /\ ~isRunning') =>
       /\ delivered' = delivered
       /\ \A l \in DOMAIN loops' :
            loops'[l].pc = "fetching" => (l \in DOMAIN loops /\ loops[l].pc = "fetching")]_vars

\* loop l goes through events of its cycle in this step: its fetch or the
\* callback it awaited settles
C36_Advances(l) ==
  /\ l \in DOMAIN loops
  /\ loops[l].pc \in {"fetching", "calling"}
  /\ loops'[l] # loops[l]

\* the first event of the cycle the step of loop l looks at
C36_From(l) == IF loops[l].pc = "fetching" THEN 1 ELSE loops[l].next + 1

\* C36: within one poll cycle the fetched events are gone through in feed
\* order, whether the callback awaited for an earlier event resolved or
\* threw: the events that do not pass the filters are passed over, the
\* callback is invoked once on the next event that passes them, and the loop
\* sleeps once no event is left; the loop does not return.
C36_CallbackFailureIsolated ==
  [][\A l \in FeedLoops :
       C36_Advances(l) =>
         LET events == loops'[l].events
             next == loops'[l].next
         IN  /\ loops[l].pc = "calling" => events = loops[l].events
             /\ \A j \in C36_From(l)..(next - 1) : ~C27_Satisfies(events[j])
             /\ loops'[l].pc \in {"calling", "sleeping", "backoff"}
             /\ loops'[l].pc = "calling" =>
                  /\ next \in C36_From(l)..Len(events)
                  /\ C27_Satisfies(events[next])
                  /\ delivered' = Append(delivered, events[next])
             /\ loops'[l].pc = "sleeping" =>
                  /\ next = Len(events) + 1
                  /\ delivered' = delivered
             /\ loops'[l].pc = "backoff" =>
                  /\ next \in C36_From(l)..Len(events)
                  /\ ~C27_Satisfies(events[next])
                  /\ delivered' = delivered]_vars

\* the callback threw for the first event of a cycle and is awaited for the
\* second one
C36_Witness ==
  \E l \in FeedLoops :
    /\ l \in DOMAIN loops
    /\ loops[l].failure = "callback"
    /\ loops[l].pc = "calling"
    /\ loops[l].next = 2

\* C37: when no message is being processed by the Telegram client, its map
\* of response handlers is empty: every handler registered for a text
\* message has been removed by the time the processing of that message has
\* ended, also when the run failed or the handler's own send failed.
C37_NoHandlerLeak ==
  (\A r \in Runs : handler[r] \in {"idle", "done", "rejected"}) =>
    DOMAIN responseHandlers = {}

\* the tools of the capability list
C38_Capabilities == Range(tools)

\* C38: however the awaits of initialize() of concurrently registered
\* plugins interleave, the agent's capability list holds the tools of every
\* plugin whose registerPlugin call has completed, and so the tools of all
\* of them once all calls have completed; the model binding and the tool
\* node hold them too.
C38_NoCapabilityLost ==
  \A p \in registered :
    /\ Range(PluginCatalogue[p].tools) \subseteq C38_Capabilities
    /\ Range(PluginCatalogue[p].tools) \subseteq Range(modelTools)
    /\ Range(PluginCatalogue[p].tools) \subseteq Range(workflowTools)

\* the registerPlugin calls of both plugins awaited initialize() at the
\* same time and all calls have completed
C38_Witness ==
  /\ initializing = {}
  /\ registered = PluginIds
  /\ overlapped = PluginIds

====
